---------------------------- MODULE Spec2Model ----------------------------
(***************************************************************************)
(* A model of the call-recording analyser: the filename-metadata parsers   *)
(* and their factory, the summary CSV writer and reader, the duration      *)
(* codec, the analysis flattening and classification, and the recursive    *)
(* folder walks of main: the transcription walk that calls a provider for  *)
(* each file without a transcript and the summary walk that writes one     *)
(* summary.csv per folder.                                                 *)
(*                                                                         *)
(* Strings are tuples of one-character strings, so that every regular      *)
(* expression, slice and split of the source is computed character by      *)
(* character.  Positions are 1-based; a search that finds nothing gives 0. *)
(***************************************************************************)
EXTENDS Integers, Sequences, FiniteSets, TLC

VARIABLES
    \* FilenameParserFactory and the parser strategies
    parsers,      \* the factory's registry, in registration order
    registered,   \* the parsers handed to addParser so far, in call order
    filename,     \* the filename last handed to a parser
    strategy,     \* who parsed it: "factory", a parser's name, "index", or "none"
    consulted,    \* the parsers whose canParse the factory called, in order
    metadata,     \* the FilenameMetadata returned
    \* summary CSV writer and reader
    csvData,      \* the rows collected for one summary.csv
    csvContent,   \* the text written by generateCsvFile
    csvParsed,    \* the rows read back from csvContent
    csvPc,        \* "collect" | "written" | "parsed"
    \* duration codec
    durSeconds,   \* the number of seconds last formatted
    durText,      \* the duration text last parsed
    durResult,    \* the seconds hmsToSeconds returned
    durPc,        \* "idle" | "formatted" | "parsed"
    \* analysis flattening and classification
    callTagsIn,   \* the call_tags names of the analysis record
    flat,         \* the flattened tags, their count, the joined text and the bucket
    \* the folder walk
    listing,      \* folder -> its directory entries, in listing order
    exists,       \* the paths that exist beside the audio files
    stack,        \* the active processFolderForSummary calls, innermost last
    files,        \* path of a summary.csv -> the lines written to it
    writes,       \* folder -> how often its summary.csv has been written
    writeFailed,  \* the folders whose summary.csv could not be written
    finished,     \* the folders whose processFolderForSummary has returned
    failedAt,     \* where the run was ended: the folder whose readdir threw,
                  \* "options" for a rejected service, "" if nowhere
    inFlight,     \* the provider calls and duration probes awaited right now
    walkPc,       \* "idle" | "running" | "done" | "failed"
    \* main and the transcription walk
    mode,         \* "transcribe" | "summary" | "both"
    service,      \* the --service option
    openaiApiKey, \* whether --api-key or OPENAI_API_KEY gives a key
    content,      \* path of a transcript -> the text it holds
    tStack,       \* the active processFolderForTranscription calls, innermost last
    tFinished,    \* the folders whose processFolderForTranscription has returned
    decisions,    \* the skip-or-transcribe decisions taken, in order
    calls,        \* the provider calls made and how each ended, in order
    tPc,          \* "idle" | "running" | "done" | "failed"
    \* the tree-level aggregation and the second run
    analyses,     \* path of an analysis sidecar -> the call_tags it holds
    collected,    \* the folders whose summary.csv was collected, in order
    overview,     \* the rows of overview.csv
    grouped,      \* name of a grouped list at the base -> its elements
    probed,       \* path of an audio file -> the duration reported for it
    firstRun,     \* the output files as the first run left them
    runs,         \* how many runs have been started
    aggPc,        \* "idle" | "done"
    \* the hourly histogram
    hourLog,      \* the rows handed to the histogram so far, in order
    hourly,       \* hour 0..23 -> [totalSeconds, calls]
    \* one call of transcribeFileGoogle or transcribeFile
    provider,     \* "google" | "whisper"
    fileExt,      \* the lower-cased extension of filePath
    ffmpegOut,    \* what the ffmpeg pipeline of getAudioDuration gives for the file
    tooLarge,     \* whether the audio buffer exceeds 10 MB
    callPc,       \* the statement the call is at
    tempWavPath,  \* the local tempWavPath: null (<<>>) or the converted file
    gcsUri,       \* the local gcsUri: null (<<>>) or the uploaded object
    audioDuration,\* the local audioDuration: null (<<>>) or "HH:MM:SS"
    tests,        \* the results of the threshold tests, in order
    apiCalls,     \* the recognition requests sent, in order
    tmpFiles,     \* the files in the temporary directory
    unlinks,      \* the paths handed to fs.unlink, in order
    gcsObjects,   \* the objects in the bucket
    gcsDeletes,   \* the objects whose delete was issued, in order
    txtFile,      \* what txtPath holds
    response,     \* how the recognition answered
    pending,      \* the value of the return statement, before finally has run
    result,       \* the value the call returned
    \* one call of transcribeFileSpeechmatics
    pollPc,       \* the statement the call is at
    attempts,     \* the local attempts
    awaitingStatus,   \* whether a status request is awaited
    statusRequests,   \* how many status requests have been sent
    jobStatus,    \* the status last reported
    transcriptFetches,    \* how often the transcript has been requested
    transcriptionResult,  \* the local transcriptionResult: "null" or what was fetched
    errorMessage, \* the message of the error thrown
    speechTxt,    \* what txtPath holds
    speechResult, \* the value the call returned
    runNo,        \* which run of the program over the directory this is
    earlier       \* the provider calls of the runs before it, one sequence a run

fnVars == <<parsers, registered, filename, strategy, consulted, metadata>>
csvVars == <<csvData, csvContent, csvParsed, csvPc>>
durVars == <<durSeconds, durText, durResult, durPc>>
flatVars == <<callTagsIn, flat>>
walkVars == <<listing, exists, stack, files, writes, writeFailed, finished, failedAt,
              inFlight, walkPc>>
runVars ==
    <<mode, service, openaiApiKey, content, tStack, tFinished, decisions, calls, tPc>>
treeVars == <<analyses, collected, overview, grouped, probed, firstRun, runs, aggPc>>
hourVars == <<hourLog, hourly>>
callVars == <<provider, fileExt, ffmpegOut, tooLarge, callPc, tempWavPath, gcsUri,
              audioDuration, tests, apiCalls, tmpFiles, unlinks, gcsObjects, gcsDeletes,
              txtFile, response, pending, result>>
pollVars == <<pollPc, attempts, awaitingStatus, statusRequests, jobStatus,
              transcriptFetches, transcriptionResult, errorMessage, speechTxt,
              speechResult>>
againVars == <<runNo, earlier>>
laterVars == <<hourVars, callVars, pollVars, againVars>>
vars == <<fnVars, csvVars, durVars, flatVars, walkVars, runVars, treeVars, laterVars>>

-----------------------------------------------------------------------------
(* Characters and strings                                                  *)

Digits == <<"0","1","2","3","4","5","6","7","8","9">>
Upper == <<"A","B","C","D","E","F","G","H","I","J","K","L","M","N","O","P","Q","R","S","T","U","V","W","X","Y","Z">>
Lower == <<"a","b","c","d","e","f","g","h","i","j","k","l","m","n","o","p","q","r","s","t","u","v","w","x","y","z">>

Range(s) == {s[i] : i \in 1..Len(s)}

DigitSet == Range(Digits)
LetterSet == Range(Upper) \cup Range(Lower)
\* \w of a JavaScript regular expression
WordSet == DigitSet \cup LetterSet \cup {"_"}
\* \s of a JavaScript regular expression, over the characters used here
SpaceSet == {" ", "\n"}

IsDigit(c) == c \in DigitSet
IsSpace(c) == c \in SpaceSet

DigitVal(c) == (CHOOSE i \in 1..10 : Digits[i] = c) - 1
DigitChar(n) == Digits[n + 1]

ToLowerChar(c) ==
    IF c \in Range(Upper) THEN Lower[CHOOSE i \in 1..26 : Upper[i] = c] ELSE c
\* String.prototype.toLowerCase
ToLower(s) == [i \in 1..Len(s) |-> ToLowerChar(s[i])]

\* every character of s is in the set cs
AllIn(s, cs) == \A i \in 1..Len(s) : s[i] \in cs

\* s.startsWith(pat, i - 1)
StartsWithAt(s, i, pat) ==
    /\ i >= 1
    /\ i + Len(pat) - 1 <= Len(s)
    /\ SubSeq(s, i, i + Len(pat) - 1) = pat
StartsWith(s, pat) == StartsWithAt(s, 1, pat)

\* s.indexOf(pat) + 1
IndexOf(s, pat) ==
    LET hits == {i \in 1..Len(s) : StartsWithAt(s, i, pat)}
    IN IF hits = {} THEN 0 ELSE CHOOSE i \in hits : \A j \in hits : i <= j
\* s.includes(pat)
Includes(s, pat) == IndexOf(s, pat) # 0

\* s.substring(i - 1): the rest of s from position i on
From(s, i) == SubSeq(s, i, Len(s))

\* The last position of the longest run of characters of cs that starts at i
\* (i - 1 when s[i] is not in cs): a greedy [cs]+ or [cs]*.
RunEnd(s, i, cs) ==
    LET ends == {j \in (i - 1)..Len(s) : \A k \in i..j : s[k] \in cs}
    IN CHOOSE j \in ends : \A k \in ends : k <= j

\* String.prototype.trim
Trim(s) ==
    LET keep == {i \in 1..Len(s) : ~IsSpace(s[i])}
    IN IF keep = {} THEN <<>>
       ELSE SubSeq(s, CHOOSE i \in keep : \A j \in keep : i <= j,
                      CHOOSE i \in keep : \A j \in keep : j <= i)

\* s.replace(/[^cs]/g, ''): the characters of s that are in cs, in order
Keep(s, cs) ==
    LET idx == {i \in 1..Len(s) : s[i] \in cs}
    IN [k \in 1..Cardinality(idx) |->
           s[CHOOSE i \in idx : Cardinality({j \in idx : j <= i}) = k]]

\* s.split(sep) for a one-character separator
RECURSIVE Split(_, _)
Split(s, sep) ==
    LET i == IndexOf(s, <<sep>>)
    IN IF i = 0 THEN <<s>>
       ELSE <<SubSeq(s, 1, i - 1)>> \o Split(From(s, i + 1), sep)

\* parts.join(sep)
RECURSIVE Join(_, _)
Join(parts, sep) ==
    IF parts = <<>> THEN <<>>
    ELSE IF Len(parts) = 1 THEN parts[1]
    ELSE parts[1] \o sep \o Join(Tail(parts), sep)

\* filename.replace(/\.[^.]+$/, ''): drops the last ".ext" when ext is not empty
RemoveExtension(name) ==
    LET dots == {i \in 1..Len(name) : name[i] = "."}
        last == CHOOSE i \in dots : \A j \in dots : j <= i
    IN IF dots = {} \/ last = Len(name) THEN name ELSE SubSeq(name, 1, last - 1)

\* phoneStr.startsWith('+') ? phoneStr.substring(1) : phoneStr
StripPlus(s) == IF StartsWith(s, <<"+">>) THEN Tail(s) ELSE s

NA == <<"N","/","A">>
NoMetadata == [timestamp |-> NA, phoneNumber |-> NA, callType |-> NA]

-----------------------------------------------------------------------------
(* new Date(ts).toISOString() for a millisecond value given by its digits  *)

MsPerDay == 24 * 60 * 60 * 1000
\* The largest day count of a valid Date: 8.64e15 ms.
MaxDateDays == 100 * 1000 * 1000

\* Long division of the number written by the first k digits of ds by d.
RECURSIVE DivModAt(_, _, _)
DivModAt(ds, k, d) ==
    IF k = 0 THEN [q |-> 0, r |-> 0]
    ELSE LET p == DivModAt(ds, k - 1, d)
             n == p.r * 10 + DigitVal(ds[k])
         IN [q |-> p.q * 10 + n \div d, r |-> n % d]
DivMod(ds, d) == DivModAt(ds, Len(ds), d)

\* ds without its leading zeros
Significant(ds) ==
    LET nz == {i \in 1..Len(ds) : ds[i] # "0"}
    IN IF nz = {} THEN <<>> ELSE From(ds, CHOOSE i \in nz : \A j \in nz : i <= j)

\* Whether new Date(parseInt(ds)) is a valid date (|ts| <= 8.64e15).
DateValid(ds) ==
    /\ Len(Significant(ds)) <= 16
    /\ LET dm == DivMod(Significant(ds), MsPerDay)
       IN dm.q < MaxDateDays \/ (dm.q = MaxDateDays /\ dm.r = 0)

\* n in decimal, zero-padded to at least w digits
RECURSIVE Pad(_, _)
Pad(n, w) ==
    IF n < 10 /\ w <= 1 THEN <<DigitChar(n)>>
    ELSE Pad(n \div 10, w - 1) \o <<DigitChar(n % 10)>>

\* The proleptic Gregorian date of day number z (days since 1970-01-01).
CivilFromDays(z) ==
    LET s == z + 719468
        era == s \div 146097
        doe == s - era * 146097
        yoe == (doe - doe \div 1460 + doe \div 36524 - doe \div 146096) \div 365
        doy == doe - (365 * yoe + yoe \div 4 - yoe \div 100)
        mp == (5 * doy + 2) \div 153
        d == doy - (153 * mp + 2) \div 5 + 1
        m == IF mp < 10 THEN mp + 3 ELSE mp - 9
    IN [year |-> yoe + era * 400 + (IF m <= 2 THEN 1 ELSE 0), month |-> m, day |-> d]

\* Date.prototype.toISOString for a valid date at or after the epoch
ToISOString(ds) ==
    LET dm == DivMod(Significant(ds), MsPerDay)
        c == CivilFromDays(dm.q)
        secs == dm.r \div 1000
        y == IF c.year <= 9999 THEN Pad(c.year, 4) ELSE <<"+">> \o Pad(c.year, 6)
    IN y \o <<"-">> \o Pad(c.month, 2) \o <<"-">> \o Pad(c.day, 2) \o <<"T">>
         \o Pad(secs \div 3600, 2) \o <<":">> \o Pad((secs % 3600) \div 60, 2)
         \o <<":">> \o Pad(secs % 60, 2) \o <<".">> \o Pad(dm.r % 1000, 3) \o <<"Z">>

\* s.replace('T', ' '): the first T only
ReplaceFirstT(s) ==
    LET i == IndexOf(s, <<"T">>)
    IN IF i = 0 THEN s ELSE [s EXCEPT ![i] = " "]

\* date.toISOString().slice(0, 19).replace('T', ' ')
FormatTimestamp(ds) == ReplaceFirstT(SubSeq(ToISOString(ds), 1, 19))

-----------------------------------------------------------------------------
(* ArexFilenameParser: the TP token strategy                               *)

\* filename.match(/TOK([cs]+)/): the captured group of the leftmost match,
\* <<>> when there is none
TokenMatch(s, tok, cs) ==
    LET hits == {i \in 1..Len(s) :
                    /\ StartsWithAt(s, i, tok)
                    /\ i + Len(tok) <= Len(s)
                    /\ s[i + Len(tok)] \in cs}
        i == CHOOSE h \in hits : \A j \in hits : h <= j
    IN IF hits = {} THEN <<>>
       ELSE SubSeq(s, i + Len(tok), RunEnd(s, i + Len(tok), cs))

ArexCanParse(name) ==
    Includes(name, <<"T","P","1">>) \/ Includes(name, <<"T","P","3">>) \/ Includes(name, <<"T","P","4">>)

\* afterTP4.match(/TP\d/): the position of the leftmost match, 0 when none
NextTP(s) ==
    LET hits == {i \in 1..Len(s) :
                    StartsWithAt(s, i, <<"T","P">>) /\ i + 2 <= Len(s) /\ IsDigit(s[i + 2])}
    IN IF hits = {} THEN 0 ELSE CHOOSE h \in hits : \A j \in hits : h <= j

\* As AfterTP4, were the text taken from one character too far
AfterTP4Late(name) ==
    LET rest == From(name, IndexOf(name, <<"T","P","4">>) + 4)
        nxt == NextTP(rest)
    IN IF nxt # 0 THEN SubSeq(rest, 1, nxt - 1) ELSE rest

\* The text from just after the first TP4 up to the next TP<digit> token
AfterTP4(name) ==
    LET rest == From(name, IndexOf(name, <<"T","P","4">>) + 3)
        nxt == NextTP(rest)
    IN IF nxt # 0 THEN SubSeq(rest, 1, nxt - 1) ELSE rest

\* The three fields, with trim applied to the call type or not.  A TP1 value
\* that is no valid Date makes toISOString throw: the catch keeps all defaults.
TokenParse(name, trim) ==
    LET tp1 == TokenMatch(name, <<"T","P","1">>, DigitSet)
        tp3 == TokenMatch(name, <<"T","P","3">>, DigitSet \cup {"+"})
        tp4 == TokenMatch(name, <<"T","P","4">>, WordSet)
    IN IF tp1 # <<>> /\ ~DateValid(tp1) THEN NoMetadata
       ELSE [timestamp |-> IF tp1 # <<>> THEN FormatTimestamp(tp1) ELSE NA,
             phoneNumber |-> IF tp3 # <<>> THEN StripPlus(tp3) ELSE NA,
             callType |-> IF tp4 = <<>> THEN NA
                          ELSE IF trim THEN Trim(AfterTP4(name))
                          ELSE AfterTP4(name)]

ArexParse(name) == TokenParse(name, TRUE)

\* parseFilenameMetadata of index.ts: the same tokens, the call type untrimmed
IndexParseFilenameMetadata(name) == TokenParse(name, FALSE)

-----------------------------------------------------------------------------
(* SimpleFilenameParser: "<phone> YYYY-MM-DD HH-MM-SS" and "<phone>-YYMMDDHHMM" *)

\* s matches the picture pic: "d" stands for a digit, any other character for itself
Pictured(s, pic) ==
    /\ Len(s) = Len(pic)
    /\ \A i \in 1..Len(pic) : IF pic[i] = "d" THEN IsDigit(s[i]) ELSE s[i] = pic[i]

\* baseName.match(/^([+]?[\d\s-]+?)\s+(\d{4}-\d{2}-\d{2})\s+(\d{2})-(\d{2})-(\d{2})$/):
\* the groups <<phone, date, hh, mm, ss>>, <<>> when there is no match.
SpaceSeparatedMatch(b) ==
    LET n == Len(b)
        \* the white space before the time is the whole run that ends at n - 8
        ws2 == {i \in 1..(n - 8) : \A k \in i..(n - 8) : IsSpace(b[k])}
        a2 == CHOOSE i \in ws2 : \A j \in ws2 : i <= j
        head == SubSeq(b, 1, a2 - 11)
        body == IF StartsWith(head, <<"+">>) THEN Tail(head) ELSE head
        least == IF StartsWith(head, <<"+">>) THEN 2 ELSE 1
        solid == {i \in 1..Len(head) : ~IsSpace(head[i])}
        lastSolid == IF solid = {} THEN 0
                     ELSE CHOOSE i \in solid : \A j \in solid : j <= i
        \* the lazy group takes no more than it must
        g1 == IF lastSolid > least THEN lastSolid ELSE least
    IN IF /\ n >= 8
          /\ Pictured(SubSeq(b, n - 7, n), <<"d","d","-","d","d","-","d","d">>)
          /\ ws2 # {}
          /\ a2 >= 11
          /\ Pictured(SubSeq(b, a2 - 10, a2 - 1), <<"d","d","d","d","-","d","d","-","d","d">>)
          /\ AllIn(body, DigitSet \cup SpaceSet \cup {"-"})
          /\ Len(head) > g1
          /\ IsSpace(head[Len(head)])
       THEN <<SubSeq(head, 1, g1), SubSeq(b, a2 - 10, a2 - 1),
              SubSeq(b, n - 7, n - 6), SubSeq(b, n - 4, n - 3), SubSeq(b, n - 1, n)>>
       ELSE <<>>

\* baseName.match(/^([+]?[\d]+)-(\d{2})(\d{2})(\d{2})(\d{2})(\d{2})$/):
\* the groups <<phone, yy, mm, dd, hh, mi>>, <<>> when there is no match.
CompactMatch(b) ==
    LET n == Len(b)
        phone == SubSeq(b, 1, n - 11)
        t == SubSeq(b, n - 9, n)
    IN IF /\ n >= 12
          /\ b[n - 10] = "-"
          /\ AllIn(t, DigitSet)
          /\ StripPlus(phone) # <<>>
          /\ AllIn(StripPlus(phone), DigitSet)
       THEN <<phone, SubSeq(t, 1, 2), SubSeq(t, 3, 4), SubSeq(t, 5, 6),
              SubSeq(t, 7, 8), SubSeq(t, 9, 10)>>
       ELSE <<>>

SimpleCanParse(name) ==
    LET baseName == RemoveExtension(name)
    IN SpaceSeparatedMatch(baseName) # <<>> \/ CompactMatch(baseName) # <<>>

\* normalizedPhone || 'N/A'
OrNA(s) == IF s = <<>> THEN NA ELSE s

\* As SimpleParse, were the compact form accepted by canParse only
SimpleParseSpaceSeparated(name) ==
    LET sp == SpaceSeparatedMatch(RemoveExtension(name))
    IN IF sp # <<>>
       THEN [timestamp |-> sp[2] \o <<" ">> \o sp[3] \o <<":">> \o sp[4] \o <<":">> \o sp[5],
             phoneNumber |-> OrNA(StripPlus(Keep(sp[1], DigitSet \cup {"+"}))),
             callType |-> NA]
       ELSE NoMetadata

SimpleParse(name) ==
    LET baseName == RemoveExtension(name)
        sp == SpaceSeparatedMatch(baseName)
        cp == CompactMatch(baseName)
    IN IF sp # <<>>
       THEN [timestamp |-> sp[2] \o <<" ">> \o sp[3] \o <<":">> \o sp[4] \o <<":">> \o sp[5],
             phoneNumber |-> OrNA(StripPlus(Keep(sp[1], DigitSet \cup {"+"}))),
             callType |-> NA]
       ELSE IF cp # <<>>
       THEN [timestamp |-> <<"2","0">> \o cp[2] \o <<"-">> \o cp[3] \o <<"-">> \o cp[4] \o <<" ">>
                             \o cp[5] \o <<":">> \o cp[6] \o <<":","0","0">>,
             phoneNumber |-> OrNA(StripPlus(cp[1])),
             callType |-> NA]
       ELSE NoMetadata

-----------------------------------------------------------------------------
(* CallRecordingFilenameParser: "Call recording <phone>_<YYMMDD>_<HHMMSS>" *)

CallRecordingPrefix == <<"C","a","l","l"," ","r","e","c","o","r","d","i","n","g"," ">>

CallRecordingCanParse(name) == StartsWith(name, CallRecordingPrefix)

\* s.replace(/^Call recording\s+/, '')
DropCallRecording(s) ==
    LET word == <<"C","a","l","l"," ","r","e","c","o","r","d","i","n","g">>
        e == RunEnd(s, Len(word) + 1, SpaceSet)
    IN IF StartsWith(s, word) /\ e > Len(word) THEN From(s, e + 1) ELSE s

CallRecordingParse(name) ==
    LET parts == Split(DropCallRecording(RemoveExtension(name)), "_")
        dateStr == parts[2]
        timeStr == parts[3]
    IN IF Len(parts) < 3 THEN NoMetadata
       ELSE [timestamp |->
                IF Len(dateStr) = 6 /\ Len(timeStr) = 6
                THEN <<"2","0">> \o SubSeq(dateStr, 1, 2) \o <<"-">> \o SubSeq(dateStr, 3, 4)
                       \o <<"-">> \o SubSeq(dateStr, 5, 6) \o <<" ">> \o SubSeq(timeStr, 1, 2)
                       \o <<":">> \o SubSeq(timeStr, 3, 4) \o <<":">> \o SubSeq(timeStr, 5, 6)
                ELSE NA,
             phoneNumber |-> StripPlus(parts[1]),
             callType |-> NA]

-----------------------------------------------------------------------------
(* FilenameParserFactory                                                   *)

ParserNames == {"arex", "simple", "call-recording"}

CanParse(p, name) ==
    CASE p = "arex" -> ArexCanParse(name)
      [] p = "simple" -> SimpleCanParse(name)
      [] p = "call-recording" -> CallRecordingCanParse(name)

Parse(p, name) ==
    CASE p = "arex" -> ArexParse(name)
      [] p = "simple" -> SimpleParse(name)
      [] p = "call-recording" -> CallRecordingParse(name)

\* The registry the constructor leaves
ConstructedParsers == <<"arex", "simple">>

\* The loop of parseFilenameMetadata from parser k on: the parsers consulted
\* so far and, once one accepts, its parse.
RECURSIVE TryParsers(_, _, _, _)
TryParsers(ps, k, name, asked) ==
    IF k > Len(ps) THEN [consulted |-> asked, metadata |-> NoMetadata]
    ELSE IF CanParse(ps[k], name)
    THEN [consulted |-> Append(asked, ps[k]), metadata |-> Parse(ps[k], name)]
    ELSE TryParsers(ps, k + 1, name, Append(asked, ps[k]))

\* As FactoryParse, were the loop to run on after a match
FactoryParseLastMatch(ps, name) ==
    LET hits == {i \in 1..Len(ps) : CanParse(ps[i], name)}
    IN [consulted |-> ps,
        metadata |-> IF hits = {} THEN NoMetadata
                     ELSE Parse(ps[CHOOSE i \in hits : \A j \in hits : j <= i], name)]

FactoryParse(ps, name) == TryParsers(ps, 1, name, <<>>)

-----------------------------------------------------------------------------
(* The filenames the parsers are run on                                    *)

\* How many parsers addParser may add to the constructed registry
MaxAdded == 2

\* Millisecond values with their UTC rendering
MsSamples ==
    { [ms |-> <<"1","7","5","5","6","5","9","1","4","8","2","8","4">>, utc |-> <<"2","0","2","5","-","0","8","-","2","0"," ","0","3",":","0","5",":","4","8">>],
      [ms |-> <<"0">>, utc |-> <<"1","9","7","0","-","0","1","-","0","1"," ","0","0",":","0","0",":","0","0">>],
      [ms |-> <<"9","5","1","7","8","2","4","0","0","0","0","0">>, utc |-> <<"2","0","0","0","-","0","2","-","2","9"," ","0","0",":","0","0",":","0","0">>],
      [ms |-> <<"1","7","0","9","2","5","1","1","9","9","9","9","9">>, utc |-> <<"2","0","2","4","-","0","2","-","2","9"," ","2","3",":","5","9",":","5","9">>] }
TokenPrefixes == {<<"r","e","c","o","r","d","i","n","g","-">>, <<>>}
PhoneTokens == {<<"7","5","6","1","0","7","4","5","2","3">>, <<"+","4","4","7","7","0","0","9","0","0","1","2","3">>}
CallTypeWords == {<<"o","u","t","g","o","i","n","g">>, <<"O","u","t","g","o","i","n","g">>, <<"i","n","c","o","m","i","n","g">>}
Extensions == {<<".","a","m","r">>, <<".","m","p","3">>}

TokenFilename(pre, ms, phone, word, ext) ==
    pre \o <<"T","P","1">> \o ms \o <<"T","P","2","T","P","3">> \o phone \o <<"T","P","4">> \o word \o ext

TokenFilenames ==
    {TokenFilename(pre, s.ms, phone, word, ext) :
        pre \in TokenPrefixes, s \in MsSamples, phone \in PhoneTokens,
        word \in CallTypeWords, ext \in Extensions}

CompactPhones == {<<"9","1","8","3","2","8","6","3","3","4","3","3">>, <<"7">>}
CompactStamps == {<<"2","5","1","1","0","7","1","5","0","7">>, <<"0","0","0","1","0","1","0","0","0","0">>, <<"9","9","1","2","3","1","2","3","5","9">>}
PlusOrNot == {<<"+">>, <<>>}

CompactFilename(plus, phone, stamp, ext) == plus \o phone \o <<"-">> \o stamp \o ext

CompactFilenames ==
    {CompactFilename(plus, phone, stamp, ext) :
        plus \in PlusOrNot, phone \in CompactPhones, stamp \in CompactStamps,
        ext \in Extensions \cup {<<>>}}

PrefixPhones == {<<"+","9","1","9","8","7","6","5","4","3","2","1","0">>, <<"9","8","7","6","5","4","3","2","1","0">>}
PrefixDates == {<<"2","5","0","8","2","0">>, <<"0","0","0","1","0","1">>}
PrefixTimes == {<<"0","3","0","5","4","8">>, <<"2","3","5","9","5","9">>}

PrefixFilename(phone, date, time, ext) ==
    CallRecordingPrefix \o phone \o <<"_">> \o date \o <<"_">> \o time \o ext

PrefixFilenames ==
    {PrefixFilename(phone, date, time, ext) :
        phone \in PrefixPhones, date \in PrefixDates, time \in PrefixTimes,
        ext \in Extensions}

OtherFilenames ==
    { <<"h","e","l","l","o",".","m","p","3">>,
      <<"9","8","7","6"," ","5","4","3","-","2","1","0"," ","2","0","2","5","-","0","8","-","2","0"," ","0","3","-","0","5","-","4","8",".","m","p","3">>,
      <<"+"," ","9","8","7","6"," "," ","2","0","2","5","-","0","8","-","2","0"," "," ","0","3","-","0","5","-","4","8",".","w","a","v">>,
      <<"C","a","l","l"," ","r","e","c","o","r","d","i","n","g"," ","T","P","4","x","_","2","5","0","8","2","0","_","0","3","0","5","4","8",".","a","m","r">>,
      <<"C","a","l","l"," ","r","e","c","o","r","d","i","n","g"," ","1","2","3","_","2","5","0","8","_","0","3",".","a","m","r">>,
      <<"r","e","c","-","T","P","3","+","4","4","7","7","T","P","4"," ","i","n","c","o","m","i","n","g"," ","T","P","5","x",".","w","a","v">>,
      <<"T","P","1","9","9","9","9","9","9","9","9","9","9","9","9","9","9","9","9","9","T","P","3","1","2","3","T","P","4","i","n",".","m","p","3">>,
      <<"T","P","4","-","T","P","4","o","u","t","T","P","1",".","o","g","g">>,
      <<"1","2","3","-","2","5","1","1","0","7","1","5","0","7",".","t","a","r",".","g","z">> }

Filenames == TokenFilenames \cup CompactFilenames \cup PrefixFilenames \cup OtherFilenames

-----------------------------------------------------------------------------
(* The factory and the strategies as a state machine: a filename is chosen, *)
(* parsers may be added, and then one parser, the factory or index.ts's     *)
(* parseFilenameMetadata is run on the filename.                            *)

FnIdle ==
    /\ parsers = ConstructedParsers
    /\ registered = <<>>
    /\ filename = <<>>
    /\ strategy = "none"
    /\ consulted = <<>>
    /\ metadata = NoMetadata

FnInit ==
    /\ parsers = ConstructedParsers
    /\ registered = <<>>
    /\ filename \in Filenames
    /\ strategy = "none"
    /\ consulted = <<>>
    /\ metadata = NoMetadata

\* this.parsers.push(parser)
Registered(ps, p) == Append(ps, p)

AddParser(p) ==
    /\ strategy = "none"
    /\ Len(registered) < MaxAdded
    /\ parsers' = Registered(parsers, p)
    /\ registered' = Append(registered, p)
    /\ UNCHANGED <<filename, strategy, consulted, metadata>>

ParseFilenameMetadata ==
    /\ strategy = "none"
    /\ strategy' = "factory"
    /\ consulted' = FactoryParse(parsers, filename).consulted
    /\ metadata' = FactoryParse(parsers, filename).metadata
    /\ UNCHANGED <<parsers, registered, filename>>

\* One strategy called directly: canParse is not asked first
StrategyParse(p) ==
    /\ strategy = "none"
    /\ strategy' = p
    /\ metadata' = Parse(p, filename)
    /\ UNCHANGED <<parsers, registered, filename, consulted>>

IndexParse ==
    /\ strategy = "none"
    /\ strategy' = "index"
    /\ metadata' = IndexParseFilenameMetadata(filename)
    /\ UNCHANGED <<parsers, registered, filename, consulted>>

-----------------------------------------------------------------------------
(* generateCsvFile: the text of a summary.csv                              *)

CsvHeaders ==
    << <<"F","i","l","e","n","a","m","e">>, <<"D","u","r","a","t","i","o","n">>, <<"H","a","s"," ","T","r","a","n","s","c","r","i","p","t","i","o","n">>, <<"T","i","m","e","s","t","a","m","p">>,
       <<"P","h","o","n","e"," ","N","u","m","b","e","r">>, <<"C","a","l","l"," ","T","y","p","e">> >>

\* `"${value}"`: the value between two double quotes, as it is
Quoted(value) == <<"\"">> \o value \o <<"\"">>

\* The values of one data row, in column order
RowValues(row) ==
    << Quoted(row.filename),
       Quoted(row.duration),
       Quoted(IF row.hasTranscription THEN <<"Y","e","s">> ELSE <<"N","o">>),
       Quoted(row.timestamp),
       Quoted(row.phoneNumber),
       Quoted(row.callType) >>

RECURSIVE CsvRows(_)
CsvRows(rows) ==
    IF rows = <<>> THEN <<>>
    ELSE Join(RowValues(Head(rows)), <<",">>) \o <<"\n">> \o CsvRows(Tail(rows))

\* csvContent as generateCsvFile builds it
GenerateCsv(rows) == Join(CsvHeaders, <<",">>) \o <<"\n">> \o CsvRows(rows)

\* One row of csvData as processFolderForSummary pushes it:
\* {filename, duration: duration || 'N/A', hasTranscription, ...metadata}
SummaryRow(name, duration, hasTranscription, md) ==
    [filename |-> name,
     duration |-> IF duration = <<>> THEN NA ELSE duration,
     hasTranscription |-> hasTranscription,
     timestamp |-> md.timestamp,
     phoneNumber |-> md.phoneNumber,
     callType |-> md.callType]

-----------------------------------------------------------------------------
(* The CSV codec of the specification (section 4.1): escape and parse       *)

\* escape(value): the value in double quotes, each embedded quote doubled
RECURSIVE DoubleQuotes(_)
DoubleQuotes(s) ==
    IF s = <<>> THEN <<>>
    ELSE (IF Head(s) = "\"" THEN <<"\"","\"">> ELSE <<Head(s)>>) \o DoubleQuotes(Tail(s))

Escape(value) == <<"\"">> \o DoubleQuotes(value) \o <<"\"">>

\* The character-level parser: st holds the rows finished so far, the fields
\* of the row being read, the field being read and the mode: "plain" outside
\* quotes, "quoted" inside, "closing" after a quote met inside quotes (the
\* next character tells whether it was the first half of a doubled quote).
ParseStart == [rows |-> <<>>, fields |-> <<>>, field |-> <<>>, mode |-> "plain"]

\* A finished row is kept unless it is one empty field (a blank line).
EndRow(st) ==
    LET row == Append(st.fields, st.field)
    IN [st EXCEPT !.rows = IF row = << <<>> >> THEN @ ELSE Append(@, row),
                  !.fields = <<>>, !.field = <<>>]

ParseChar(st, c) ==
    IF st.mode = "quoted"
    THEN IF c = "\"" THEN [st EXCEPT !.mode = "closing"]
         ELSE [st EXCEPT !.field = Append(@, c)]
    ELSE IF c = "\""
    THEN IF st.mode = "closing"
         THEN [st EXCEPT !.field = Append(@, "\""), !.mode = "quoted"]
         ELSE [st EXCEPT !.mode = "quoted"]
    ELSE IF c = ","
    THEN [st EXCEPT !.fields = Append(@, st.field), !.field = <<>>, !.mode = "plain"]
    ELSE IF c = "\n"
    THEN [EndRow(st) EXCEPT !.mode = "plain"]
    ELSE [st EXCEPT !.field = Append(@, c), !.mode = "plain"]

ParseModes == {"plain", "quoted", "closing"}

\* The parser run over text[lo..hi].  The text is halved, and the left half
\* is finished before the right half starts, only to keep the evaluation
\* shallow: the characters are still consumed one by one from left to right.
RECURSIVE ParseRange(_, _, _, _)
ParseRange(text, lo, hi, st) ==
    IF lo > hi THEN st
    ELSE IF lo = hi THEN ParseChar(st, text[lo])
    ELSE LET left == ParseRange(text, lo, (lo + hi) \div 2, st)
         IN IF left.mode \in ParseModes
            THEN ParseRange(text, (lo + hi) \div 2 + 1, hi, left)
            ELSE left

\* All rows of the text; a last row without a line end counts too.
ParseRows(text) ==
    LET st == ParseRange(text, 1, Len(text), ParseStart)
    IN IF st.fields = <<>> /\ st.field = <<>> THEN st.rows ELSE EndRow(st).rows

\* parse(text) -> {headers, rows}
ParseCsv(text) ==
    LET all == ParseRows(text)
    IN IF all = <<>> THEN [headers |-> <<>>, rows |-> <<>>]
       ELSE [headers |-> Head(all), rows |-> Tail(all)]

-----------------------------------------------------------------------------
(* Writing and reading back one summary.csv                                *)

\* How many rows are collected for one file
MaxRows == 2

CsvFilenames ==
    { <<"a",".","m","p","3">>, <<"a","\"","b",".","m","p","3">>, <<"a",",","b",".","m","p","3">>, <<"a","\n","b",".","m","p","3">>, <<"\"","q","\"",".","w","a","v">> }
CsvDurations == { <<"0","0",":","0","0",":","2","0">>, <<>> }

CsvRowInputs ==
    {SummaryRow(n, d, h, NoMetadata) :
        n \in CsvFilenames, d \in CsvDurations, h \in BOOLEAN}

CsvIdle ==
    /\ csvData = <<>>
    /\ csvContent = <<>>
    /\ csvParsed = [headers |-> <<>>, rows |-> <<>>]
    /\ csvPc = "collect"

\* csvData.push(row)
PushRow(row) ==
    /\ csvPc = "collect"
    /\ Len(csvData) < MaxRows
    /\ csvData' = Append(csvData, row)
    /\ UNCHANGED <<csvContent, csvParsed, csvPc>>

\* generateCsvFile(folder, csvData), called when csvData is not empty
GenerateCsvFile ==
    /\ csvPc = "collect"
    /\ Len(csvData) > 0
    /\ csvContent' = GenerateCsv(csvData)
    /\ csvPc' = "written"
    /\ UNCHANGED <<csvData, csvParsed>>

\* parse(text) of the file just written
ReadCsvFile ==
    /\ csvPc = "written"
    /\ csvParsed' = ParseCsv(csvContent)
    /\ csvPc' = "parsed"
    /\ UNCHANGED <<csvData, csvContent>>

-----------------------------------------------------------------------------
(* The duration codec of the specification (section 4.6, step 4)           *)

\* The value of a digit string
RECURSIVE DigitsValue(_)
DigitsValue(ds) ==
    IF ds = <<>> THEN 0
    ELSE DigitsValue(SubSeq(ds, 1, Len(ds) - 1)) * 10 + DigitVal(ds[Len(ds)])

\* A part that is no integer counts as 0
PartValue(part) ==
    IF part # <<>> /\ AllIn(part, DigitSet) THEN DigitsValue(part) ELSE 0

\* hmsToSeconds: "H:MM:SS", "MM:SS" or a bare integer
HmsToSeconds(text) ==
    LET parts == Split(text, ":")
    IN IF Len(parts) = 3
       THEN PartValue(parts[1]) * 3600 + PartValue(parts[2]) * 60 + PartValue(parts[3])
       ELSE IF Len(parts) = 2
       THEN PartValue(parts[1]) * 60 + PartValue(parts[2])
       ELSE PartValue(text)

\* As SecondsToHms, were the hours those of a clock
SecondsToHmsOfDay(d) ==
    Pad((d \div 3600) % 24, 2) \o <<":">> \o Pad((d % 3600) \div 60, 2) \o <<":">> \o Pad(d % 60, 2)

\* secondsToHms: "HH:MM:SS", each part at least two digits
SecondsToHms(d) ==
    Pad(d \div 3600, 2) \o <<":">> \o Pad((d % 3600) \div 60, 2) \o <<":">> \o Pad(d % 60, 2)

\* Every duration from 0 to MaxDurSeconds is formatted, and these besides
MaxDurSeconds == 150
LongDurations == {3599, 3600, 3661, 86399, 86400, 359999, 360000, 360061}
DurationInputs == 0..MaxDurSeconds \cup LongDurations

\* Duration texts with the seconds the specification gives them
DurationTexts ==
    { [text |-> <<"1",":","0","2",":","0","3">>, seconds |-> 3723],
      [text |-> <<"1","0",":","0","0",":","0","0">>, seconds |-> 36000],
      [text |-> <<"0","2",":","0","3">>, seconds |-> 123],
      [text |-> <<"9","0",":","0","0">>, seconds |-> 5400],
      [text |-> <<"4","5">>, seconds |-> 45],
      [text |-> <<"N","/","A">>, seconds |-> 0],
      [text |-> <<>>, seconds |-> 0],
      [text |-> <<"1",":","x","x",":","0","3">>, seconds |-> 3603],
      [text |-> <<"x",":","0","5">>, seconds |-> 5],
      [text |-> <<":",":","7">>, seconds |-> 7] }

DurIdle ==
    /\ durSeconds = 0
    /\ durText = <<>>
    /\ durResult = 0
    /\ durPc = "idle"

DurInit ==
    /\ durSeconds \in DurationInputs
    /\ durText \in {t.text : t \in DurationTexts}
    /\ durResult = 0
    /\ durPc = "idle"

\* durText := secondsToHms(durSeconds)
FormatDuration ==
    /\ durPc = "idle"
    /\ durText' = SecondsToHms(durSeconds)
    /\ durPc' = "formatted"
    /\ UNCHANGED <<durSeconds, durResult>>

\* hmsToSeconds of a text as it came
ParseDurationText ==
    /\ durPc = "idle"
    /\ durResult' = HmsToSeconds(durText)
    /\ durPc' = "parsed"
    /\ UNCHANGED <<durSeconds, durText>>

\* hmsToSeconds of what secondsToHms wrote
ParseFormatted ==
    /\ durPc = "formatted"
    /\ durResult' = HmsToSeconds(durText)
    /\ durPc' = "roundtrip"
    /\ UNCHANGED <<durSeconds, durText>>

-----------------------------------------------------------------------------
(* Flattening call_tags and classifying a record (section 4.4)             *)

\* The k-th name is a case-insensitive repeat of an earlier one
SeenBefore(names, k) == \E j \in 1..(k - 1) : ToLower(names[j]) = ToLower(names[k])

\* The names of seq at the positions in idx, in order
AtPositions(seq, idx) ==
    [k \in 1..Cardinality(idx) |->
        seq[CHOOSE i \in idx : Cardinality({j \in idx : j <= i}) = k]]

\* As UniqueTags, were repeats compared as written
UniqueTagsAsWritten(tags) ==
    LET trimmed == [i \in 1..Len(tags) |-> Trim(tags[i])]
        filled == AtPositions(trimmed, {i \in 1..Len(trimmed) : trimmed[i] # <<>>})
    IN AtPositions(filled, {k \in 1..Len(filled) :
                               \A j \in 1..(k - 1) : filled[j] # filled[k]})

\* Tag names trimmed, the empty ones dropped, case-insensitive repeats dropped
\* keeping the first
UniqueTags(tags) ==
    LET trimmed == [i \in 1..Len(tags) |-> Trim(tags[i])]
        filled == AtPositions(trimmed, {i \in 1..Len(trimmed) : trimmed[i] # <<>>})
    IN AtPositions(filled, {k \in 1..Len(filled) : ~SeenBefore(filled, k)})

\* callTags and callTagsCount of a row
FlattenTags(tags) ==
    [names |-> UniqueTags(tags),
     callTagsCount |-> Len(UniqueTags(tags)),
     callTags |-> Join(UniqueTags(tags), <<" ","|"," ">>)]

\* The bucket of a record: "deactivation", "outgoing", "incoming" or "none"
Classify(tagNames, callType) ==
    IF \E i \in 1..Len(tagNames) : ToLower(tagNames[i]) = <<"d","e","a","c","t","i","v","a","t","i","o","n">>
    THEN "deactivation"
    ELSE IF Includes(ToLower(callType), <<"o","u","t","g","o","i","n","g">>) THEN "outgoing"
    ELSE IF \/ Includes(ToLower(callType), <<"i","n","c","o","m","i","n","g">>)
            \/ Includes(ToLower(callType), <<"i","n","c","o","m","m","i","n","g">>)
    THEN "incoming"
    ELSE "none"

\* The three grouped lists of a folder after one record has been classified
Buckets(tagNames, callType) ==
    [b \in {"outgoing", "incoming", "deactivation"} |->
        Classify(tagNames, callType) = b]

TagNames ==
    { <<"I","n","t","r","o">>, <<"i","n","t","r","o">>, <<" ","I","n","t","r","o"," ">>, <<"D","e","a","c","t","i","v","a","t","i","o","n">>, <<" "," ">>,
      <<"p","a","y","m","e","n","t">> }
\* How many call_tags a record carries
MaxTags == 3
TagLists == UNION {[1..n -> TagNames] : n \in 0..MaxTags}

ClassifyFilenames ==
    { <<"r","e","c","o","r","d","i","n","g","-","T","P","1","1","7","5","5","6","5","9","1","4","8","2","8","4","T","P","2","T","P","3","7","5","6","1","0","7","4","5","2","3","T","P","4","O","u","t","g","o","i","n","g",".","a","m","r">>,
      <<"r","e","c","o","r","d","i","n","g","-","T","P","1","1","7","5","5","6","5","9","1","4","8","2","8","4","T","P","2","T","P","3","7","5","6","1","0","7","4","5","2","3","T","P","4","o","u","t","g","o","i","n","g",".","a","m","r">>,
      <<"r","e","c","-","T","P","1","9","5","1","7","8","2","4","0","0","0","0","0","T","P","3","+","4","4","7","7","T","P","4","i","n","c","o","m","i","n","g",".","m","p","3">>,
      <<"r","e","c","-","T","P","3","1","2","3","T","P","4","I","N","C","O","M","M","I","N","G","_","c","a","l","l","T","P","5",".","w","a","v">>,
      <<"r","e","c","-","T","P","3","1","2","3","T","P","4","m","i","s","s","e","d",".","w","a","v">>,
      <<"T","P","4","o","u","t","g","o","i","n","g","-","i","n","c","o","m","i","n","g",".","m","p","3">>,
      <<"+","9","1","8","3","2","8","6","3","3","4","3","3","-","2","5","1","1","0","7","1","5","0","7",".","a","m","r">> }

FlatIdle ==
    /\ callTagsIn = <<>>
    /\ flat = [names |-> <<>>, callTagsCount |-> 0, callTags |-> <<>>,
               buckets |-> Buckets(<<>>, <<>>), built |-> FALSE]

FlatInit ==
    /\ callTagsIn \in TagLists
    /\ flat = [names |-> <<>>, callTagsCount |-> 0, callTags |-> <<>>,
               buckets |-> Buckets(<<>>, <<>>), built |-> FALSE]

\* One row is built: the filename is resolved, the analysis record's tags are
\* flattened, and the record goes to its bucket.
BuildRecord ==
    /\ ~flat.built
    /\ strategy' = "factory"
    /\ consulted' = FactoryParse(parsers, filename).consulted
    /\ metadata' = FactoryParse(parsers, filename).metadata
    /\ flat' = [names |-> FlattenTags(callTagsIn).names,
                callTagsCount |-> FlattenTags(callTagsIn).callTagsCount,
                callTags |-> FlattenTags(callTagsIn).callTags,
                buckets |-> Buckets(FlattenTags(callTagsIn).names, metadata'.callType),
                built |-> TRUE]
    /\ UNCHANGED <<parsers, registered, filename, callTagsIn>>

-----------------------------------------------------------------------------
(* processFolderForSummary: the recursive walk that writes one summary.csv  *)
(* per folder                                                              *)

SupportedExtensions ==
    { <<".","m","p","3">>, <<".","w","a","v">>, <<".","m","p","4">>, <<".","m","4","a">>, <<".","f","l","a","c">>, <<".","o","g","g">>, <<".","a","m","r">> }

\* path.extname(name): from the last dot on, "" when there is none or when the
\* only dot is the first character
ExtName(name) ==
    LET dots == {i \in 1..Len(name) : name[i] = "."}
        last == CHOOSE i \in dots : \A j \in dots : j <= i
    IN IF dots = {} \/ last = 1 THEN <<>> ELSE From(name, last)

\* path.basename(name, ext): name without the suffix ext, compared as written
BaseName(name, ext) ==
    IF /\ ext # <<>>
       /\ Len(name) > Len(ext)
       /\ From(name, Len(name) - Len(ext) + 1) = ext
    THEN SubSeq(name, 1, Len(name) - Len(ext))
    ELSE name

\* As IsSupported, were the extension compared as written
IsSupportedAsWritten(name) == ExtName(name) \in SupportedExtensions

\* extensions.includes(path.extname(item.name).toLowerCase())
IsSupported(name) == ToLower(ExtName(name)) \in SupportedExtensions

\* The name of the transcript probed for an audio file:
\* path.basename(item.name, ext) + '.txt', ext being the lower-cased extension
TxtName(name) == BaseName(name, ToLower(ExtName(name))) \o <<".","t","x","t">>

SummaryCsvName == <<"s","u","m","m","a","r","y",".","c","s","v">>

\* What getAudioDuration may return: a duration, or null (<<>>)
DurationResults == { <<"0","0",":","0","0",":","2","0">>, <<>> }

\* As ShouldWrite, were the file written for every folder
ShouldWriteAlways(rows) == Len(rows) >= 0

\* if (csvData.length > 0) generateCsvFile(...)
ShouldWrite(rows) == Len(rows) > 0

\* csvData.push(row)
Pushed(rows, row) == Append(rows, row)

\* As WriteFile, were the text added to what the file held
WriteFileAppending(old, text) == old \o text

\* fs.writeFile(path, text, 'utf8') replaces what the file held
WriteFile(old, text) == text

\* The folders of the tree and the directory each one is an entry of
Folders == {"root", "a", "b", "a1"}

Dir(f, name) == [name |-> name, kind |-> "dir", folder |-> f]
File(name) == [name |-> name, kind |-> "file", folder |-> ""]
\* Neither a directory nor a regular file (a socket, a dangling link)
Other(name) == [name |-> name, kind |-> "other", folder |-> ""]

\* The listings readdir may return for each folder
Listings ==
    [ root |->
        { << File(<<"x",".","m","p","3">>), Dir("a", <<"a">>), File(<<"y",".","W","A","V">>), Dir("b", <<"b">>) >>,
          << Dir("a", <<"a">>), Dir("b", <<"b">>) >>,
          << Dir("a", <<"a">>), File(<<"n",".","t","x","t">>), Dir("b", <<"b">>), File(SummaryCsvName) >> },
      a |->
        { << Dir("a1", <<"a","1">>), File(<<"x",".","m","p","3">>) >>,
          << File(<<"x",".","m","p","3">>), File(<<"x",".","t","x","t">>), Dir("a1", <<"a","1">>), File(<<"y",".","W","A","V">>) >>,
          << Dir("a1", <<"a","1">>), File(<<"n","o","t","e","s">>) >> },
      b |->
        { << >>,
          << File(<<"y",".","W","A","V">>), File(SummaryCsvName) >>,
          << Other(<<"z",".","a","m","r">>), File(<<"n",".","t","x","t">>), File(SummaryCsvName) >> },
      a1 |->
        { << File(<<"z",".","a","m","r">>), File(<<"x",".","m","p","3">>), File(<<"x",".","t","x","t">>) >>,
          << File(<<".","m","p","3">>), File(<<"x",".","M","P","3",".","t","x","t">>) >>,
          << >> } ]

\* A summary.csv left by an earlier run
StaleCsv == <<"s","t","a","l","e","\n">>

HasFile(items, name) ==
    \E i \in 1..Len(items) : items[i].kind = "file" /\ items[i].name = name

\* The paths of the regular files the listings show
RegularFiles(l) ==
    UNION {{<<f, l[f][i].name>> : i \in {j \in 1..Len(l[f]) : l[f][j].kind = "file"}} :
              f \in Folders}

WalkIdle ==
    /\ listing = [f \in Folders |-> <<>>]
    /\ exists = {}
    /\ stack = <<>>
    /\ files = [f \in Folders |-> <<>>]
    /\ writes = [f \in Folders |-> 0]
    /\ writeFailed = {}
    /\ finished = {}
    /\ failedAt = ""
    /\ inFlight = {}
    /\ walkPc = "idle"

WalkInit ==
    /\ listing \in [Folders -> UNION {Listings[f] : f \in Folders}]
    /\ \A f \in Folders : listing[f] \in Listings[f]
    /\ exists = RegularFiles(listing)
    /\ stack = <<>>
    /\ files = [f \in Folders |->
                  IF HasFile(listing[f], SummaryCsvName) THEN StaleCsv ELSE <<>>]
    /\ writes = [f \in Folders |-> 0]
    /\ writeFailed = {}
    /\ finished = {}
    /\ failedAt = ""
    /\ inFlight = {}
    /\ walkPc = "idle"

\* No file is being awaited
NoItem == [name |-> <<>>, hasTranscription |-> FALSE]

\* A call of processFolderForSummary: its folder, the next entry of its loop,
\* its rows, and the file whose duration it awaits
Frame(f) == [folder |-> f, idx |-> 1, csvData |-> <<>>, awaiting |-> NoItem]

\* As Looping, were the loop to go on without awaiting the call it made
LoopingUnawaited(frame) == frame.idx >= 1

\* The loop of a call goes on only when the call it awaits has returned
Looping(frame) == frame.awaiting = NoItem

Top == stack[Len(stack)]
TopItems == listing[Top.folder]
TopItem == TopItems[Top.idx]
AtItem ==
    /\ walkPc = "running"
    /\ stack # <<>>
    /\ Looping(Top)
    /\ Top.idx <= Len(TopItems)

\* The stack with its innermost frame moved to the next entry
Advanced(rows) ==
    [stack EXCEPT ![Len(stack)] = [@ EXCEPT !.idx = @ + 1, !.csvData = rows]]

\* processSummary(folder): readdir of the base folder succeeds or throws
StartSummary ==
    /\ walkPc = "idle"
    /\ \E ok \in BOOLEAN :
          IF ok THEN stack' = <<Frame("root")>> /\ walkPc' = "running"
                     /\ failedAt' = failedAt
          ELSE stack' = <<>> /\ walkPc' = "failed" /\ failedAt' = "root"
    /\ UNCHANGED <<listing, exists, files, writes, writeFailed, finished, inFlight>>

\* item.isDirectory(): the recursive call; a readdir that throws is caught
\* nowhere below main, so it ends the whole walk
EnterDirectory ==
    /\ AtItem
    /\ TopItem.kind = "dir"
    /\ \E ok \in BOOLEAN :
          IF ok
          THEN stack' = Append(Advanced(Top.csvData), Frame(TopItem.folder))
               /\ walkPc' = walkPc
               /\ failedAt' = failedAt
          ELSE stack' = <<>> /\ walkPc' = "failed" /\ failedAt' = TopItem.folder
    /\ UNCHANGED <<listing, exists, files, writes, writeFailed, finished, inFlight>>

\* A regular file with a supported extension: the transcript is probed, then
\* getAudioDuration is called and awaited
ProbeFile ==
    /\ AtItem
    /\ TopItem.kind = "file"
    /\ IsSupported(TopItem.name)
    /\ stack' = [stack EXCEPT ![Len(stack)] =
                    [@ EXCEPT !.idx = @ + 1,
                              !.awaiting =
                                  [name |-> TopItem.name,
                                   hasTranscription |->
                                       <<Top.folder, TxtName(TopItem.name)>> \in exists]]]
    /\ inFlight' = inFlight \cup {<<"probe", Top.folder, TopItem.name>>}
    /\ UNCHANGED <<listing, exists, files, writes, writeFailed, finished, failedAt, walkPc>>

\* getAudioDuration returns a duration or null: one row is pushed
ProcessFile ==
    /\ walkPc = "running"
    /\ stack # <<>>
    /\ Top.awaiting # NoItem
    /\ \E duration \in DurationResults :
          stack' = [stack EXCEPT ![Len(stack)] =
                      [@ EXCEPT !.awaiting = NoItem,
                                !.csvData =
                                    Pushed(@, SummaryRow(Top.awaiting.name, duration,
                                              Top.awaiting.hasTranscription,
                                              IndexParseFilenameMetadata(Top.awaiting.name)))]]
    /\ inFlight' = inFlight \ {<<"probe", Top.folder, Top.awaiting.name>>}
    /\ UNCHANGED <<listing, exists, files, writes, writeFailed, finished, failedAt, walkPc>>

\* Any other entry gives no row
SkipItem ==
    /\ AtItem
    /\ \/ TopItem.kind = "other"
       \/ TopItem.kind = "file" /\ ~IsSupported(TopItem.name)
    /\ stack' = Advanced(Top.csvData)
    /\ UNCHANGED <<listing, exists, files, writes, writeFailed, finished, failedAt,
                   inFlight, walkPc>>

\* After the loop: generateCsvFile when there are rows (a failing write is
\* caught and logged), then the call returns to its caller.
FinishFolder ==
    /\ walkPc = "running"
    /\ stack # <<>>
    /\ Looping(Top)
    /\ Top.idx > Len(TopItems)
    /\ IF ShouldWrite(Top.csvData)
       THEN \E ok \in BOOLEAN :
               IF ok
               THEN /\ files' = [files EXCEPT ![Top.folder] =
                                     WriteFile(@, GenerateCsv(Top.csvData))]
                    /\ writes' = [writes EXCEPT ![Top.folder] = @ + 1]
                    /\ exists' = exists \cup {<<Top.folder, SummaryCsvName>>}
                    /\ UNCHANGED writeFailed
               ELSE /\ writeFailed' = writeFailed \cup {Top.folder}
                    /\ UNCHANGED <<files, writes, exists>>
       ELSE UNCHANGED <<files, writes, exists, writeFailed>>
    /\ finished' = finished \cup {Top.folder}
    /\ stack' = SubSeq(stack, 1, Len(stack) - 1)
    /\ walkPc' = IF Len(stack) = 1 THEN "done" ELSE walkPc
    /\ UNCHANGED <<listing, failedAt, inFlight>>

-----------------------------------------------------------------------------
(* main: the transcription walk (processFolderForTranscription) followed,   *)
(* as the mode asks, by the summary walk                                    *)

Modes == {"transcribe", "summary", "both"}

\* The services main accepts
Services == {"whisper", "google", "speechmatics", "gemini"}

\* As Transcribes, were the transcription pass made in every mode
TranscribesAlways(m) == m \in Modes

\* mode === 'transcribe' || mode === 'both'
Transcribes(m) == m = "transcribe" \/ m = "both"

\* mode === 'summary' || mode === 'both'
Summarises(m) == m = "summary" \/ m = "both"

NoSpeechText == <<"[","N","o"," ","s","p","e","e","c","h"," ","d","e","t","e","c","t","e","d","]">>
FailedText == <<"[","T","r","a","n","s","c","r","i","p","t","i","o","n"," ","f","a","i","l","e","d",":"," ","U","n","k","n","o","w","n"," ","e","r","r","o","r","]">>
SpeechText == <<"h","e","l","l","o">>

\* How a provider call may go: speech was recognised, none was recognised, the
\* call (or the conversion or the read before it) threw, or it threw and the
\* transcript could not be written either
Outcomes == {"text", "empty", "failed", "unwritable"}

Written(text) == [written |-> TRUE, text |-> text]
NotWritten == [written |-> FALSE, text |-> <<>>]

\* What each provider function leaves at txtPath
TranscribeFile(outcome) ==
    CASE outcome = "text" -> Written(SpeechText)
      [] outcome = "empty" -> Written(<<>>)
      [] OTHER -> NotWritten

TranscribeFileGoogle(outcome) ==
    CASE outcome = "text" -> Written(SpeechText)
      [] outcome = "empty" -> Written(NoSpeechText)
      [] outcome = "failed" -> Written(FailedText)
      [] OTHER -> NotWritten

TranscribeFileSpeechmatics(outcome) ==
    CASE outcome = "text" -> Written(SpeechText)
      [] outcome = "empty" -> Written(NoSpeechText)
      [] outcome = "failed" -> Written(FailedText)
      [] OTHER -> NotWritten

\* As TranscribeFileGemini, were its catch block to write no marker
TranscribeFileGeminiSilent(outcome) ==
    CASE outcome = "text" -> Written(SpeechText)
      [] outcome = "empty" -> Written(NoSpeechText)
      [] OTHER -> NotWritten

TranscribeFileGemini(outcome) ==
    CASE outcome = "text" -> Written(SpeechText)
      [] outcome = "empty" -> Written(NoSpeechText)
      [] outcome = "failed" -> Written(FailedText)
      [] OTHER -> NotWritten

\* main, for the modes that transcribe: Whisper needs its key, and any other
\* service must be one of the four
Validated(s, key) == IF s = "whisper" THEN key ELSE s \in Services

\* The provider chosen by the service, in the order of the if-chain
Transcribed(s, outcome) ==
    IF s = "whisper" THEN TranscribeFile(outcome)
    ELSE IF s = "google" THEN TranscribeFileGoogle(outcome)
    ELSE IF s = "speechmatics" THEN TranscribeFileSpeechmatics(outcome)
    ELSE IF s = "gemini" THEN TranscribeFileGemini(outcome)
    ELSE NotWritten

\* As AfterCall, were the provider's error to leave the provider function
AfterCallRethrown(outcome) ==
    IF outcome \in {"failed", "unwritable"} THEN "failed" ELSE "running"

\* The walk after a provider function has returned: every error is caught
\* inside it, so the walk goes on whatever the outcome
AfterCall(outcome) ==
    IF outcome \in Outcomes THEN "running" ELSE "failed"

\* The listing with the written file in it
WithFile(items, name) ==
    IF HasFile(items, name) THEN items ELSE Append(items, File(name))

\* The trees the runs are started on
RunTree ==
    [ root |-> << File(<<"C","A","L","L",".","M","P","3">>), File(<<"C","A","L","L",".","t","x","t">>), Dir("a", <<"a">>),
                  Dir("b", <<"b">>) >>,
      a |-> << File(<<"x",".","m","p","3">>), File(<<"x",".","t","x","t">>), Dir("a1", <<"a","1">>), File(<<"y",".","w","a","v">>) >>,
      a1 |-> << File(<<"z",".","a","m","r">>), File(<<"z","_","a","n","a","l","y","s","i","s",".","j","s","o","n">>) >>,
      b |-> << File(SummaryCsvName), File(<<"n",".","t","x","t">>), Other(<<"w",".","m","p","3">>) >> ]

SmallTree ==
    [ root |-> << Dir("a", <<"a">>), File(<<"n",".","t","x","t">>), Dir("b", <<"b">>) >>,
      a |-> << File(<<"C","A","L","L",".","M","P","3">>), File(<<"C","A","L","L",".","t","x","t">>), Dir("a1", <<"a","1">>) >>,
      a1 |-> << >>,
      b |-> << File(<<"x",".","m","p","3">>), File(SummaryCsvName), File(<<"y",".","w","a","v">>), File(<<"y",".","t","x","t">>) >> ]

\* The options and trees of the runs, and what the transcripts found hold
RunInput(tree, m, s, key, prior) ==
    [tree |-> tree, mode |-> m, service |-> s, key |-> key, prior |-> prior]

RunInputs ==
    {RunInput(RunTree, "transcribe", s, TRUE, <<>>) : s \in Services}
    \cup {RunInput(SmallTree, "transcribe", "azure", TRUE, SpeechText),
          RunInput(SmallTree, "transcribe", "whisper", FALSE, SpeechText),
          RunInput(SmallTree, "summary", "azure", FALSE, SpeechText)}
    \cup {RunInput(RunTree, "summary", "whisper", FALSE, t) :
            t \in {<<>>, NoSpeechText, FailedText, SpeechText}}
    \cup {RunInput(SmallTree, "both", s, TRUE, FailedText) : s \in {"whisper", "gemini"}}
    \cup {RunInput(RunTree, "both", s, TRUE, NoSpeechText) : s \in {"whisper", "google"}}

\* The transcripts the listings show
TxtPaths(l) == {p \in RegularFiles(l) : ExtName(p[2]) = <<".","t","x","t">>}

RunIdle ==
    /\ mode = "summary"
    /\ service = "whisper"
    /\ openaiApiKey = FALSE
    /\ content = [p \in {} |-> <<>>]
    /\ tStack = <<>>
    /\ tFinished = {}
    /\ decisions = <<>>
    /\ calls = <<>>
    /\ tPc = "idle"

StartedFrom(inputs) ==
    /\ \E in \in inputs :
          /\ listing = in.tree
          /\ mode = in.mode
          /\ service = in.service
          /\ openaiApiKey = in.key
          /\ content = [p \in TxtPaths(in.tree) |-> in.prior]
    /\ exists = RegularFiles(listing)
    /\ stack = <<>>
    /\ files = [f \in Folders |->
                  IF HasFile(listing[f], SummaryCsvName) THEN StaleCsv ELSE <<>>]
    /\ writes = [f \in Folders |-> 0]
    /\ writeFailed = {}
    /\ finished = {}
    /\ failedAt = ""
    /\ inFlight = {}
    /\ walkPc = "idle"
    /\ tStack = <<>>
    /\ tFinished = {}
    /\ decisions = <<>>
    /\ calls = <<>>
    /\ tPc = "idle"

RunStart == StartedFrom(RunInputs)

\* A call of processFolderForTranscription: its folder, the entries readdir
\* returned, the next entry of its loop, and the file whose provider it awaits
TFrame(f) == [folder |-> f, items |-> listing[f], idx |-> 1, awaiting |-> NoItem]

TTop == tStack[Len(tStack)]
TTopItem == TTop.items[TTop.idx]
TAtItem ==
    /\ tPc = "running"
    /\ tStack # <<>>
    /\ Looping(TTop)
    /\ TTop.idx <= Len(TTop.items)

\* The stack with its innermost call moved to the next entry, awaiting w
TAdvanced(w) ==
    [tStack EXCEPT ![Len(tStack)] = [@ EXCEPT !.idx = @ + 1, !.awaiting = w]]

Decision(folder, name, d) ==
    [folder |-> folder, name |-> name, txt |-> TxtName(name), decision |-> d]

\* main: the service is validated, then processTranscription reads the base
\* folder; a rejected service or a failing readdir ends the run
StartTranscription ==
    /\ tPc = "idle"
    /\ Transcribes(mode)
    /\ IF ~Validated(service, openaiApiKey)
       THEN tStack' = <<>> /\ tPc' = "failed" /\ failedAt' = "options"
       ELSE \E ok \in BOOLEAN :
               IF ok THEN tStack' = <<TFrame("root")>> /\ tPc' = "running"
                          /\ failedAt' = failedAt
               ELSE tStack' = <<>> /\ tPc' = "failed" /\ failedAt' = "root"
    /\ UNCHANGED <<listing, exists, stack, files, writes, writeFailed, finished,
                   inFlight, walkPc>>
    /\ UNCHANGED <<mode, service, openaiApiKey, content, tFinished, decisions, calls>>

\* item.isDirectory(): the awaited recursive call; its readdir may throw
TEnterDirectory ==
    /\ TAtItem
    /\ TTopItem.kind = "dir"
    /\ \E ok \in BOOLEAN :
          IF ok
          THEN tStack' = Append(TAdvanced(NoItem), TFrame(TTopItem.folder))
               /\ tPc' = tPc
               /\ failedAt' = failedAt
          ELSE tStack' = <<>> /\ tPc' = "failed" /\ failedAt' = TTopItem.folder
    /\ UNCHANGED <<listing, exists, stack, files, writes, writeFailed, finished,
                   inFlight, walkPc>>
    /\ UNCHANGED <<mode, service, openaiApiKey, content, tFinished, decisions, calls>>

\* A supported file whose txtPath can be accessed is skipped
TSkipExisting ==
    /\ TAtItem
    /\ TTopItem.kind = "file"
    /\ IsSupported(TTopItem.name)
    /\ <<TTop.folder, TxtName(TTopItem.name)>> \in exists
    /\ decisions' = Append(decisions, Decision(TTop.folder, TTopItem.name, "skip"))
    /\ tStack' = TAdvanced(NoItem)
    /\ UNCHANGED walkVars
    /\ UNCHANGED <<mode, service, openaiApiKey, content, tFinished, calls, tPc>>

\* A supported file whose txtPath cannot be accessed: the provider of the
\* service is called and awaited
TBeginTranscribe ==
    /\ TAtItem
    /\ TTopItem.kind = "file"
    /\ IsSupported(TTopItem.name)
    /\ <<TTop.folder, TxtName(TTopItem.name)>> \notin exists
    /\ decisions' = Append(decisions,
                           Decision(TTop.folder, TTopItem.name, "transcribe"))
    /\ tStack' = TAdvanced([name |-> TTopItem.name, hasTranscription |-> FALSE])
    /\ inFlight' = inFlight \cup {<<"provider", TTop.folder, TTopItem.name>>}
    /\ UNCHANGED <<listing, exists, stack, files, writes, writeFailed, finished,
                   failedAt, walkPc>>
    /\ UNCHANGED <<mode, service, openaiApiKey, content, tFinished, calls, tPc>>

\* The provider function returns, having written the transcript, a marker or
\* nothing
TEndTranscribe ==
    /\ tPc = "running"
    /\ tStack # <<>>
    /\ TTop.awaiting # NoItem
    /\ \E outcome \in Outcomes :
          LET name == TTop.awaiting.name
              path == <<TTop.folder, TxtName(name)>>
              left == Transcribed(service, outcome)
          IN /\ IF left.written
                THEN /\ exists' = exists \cup {path}
                     /\ content' = [p \in DOMAIN content \cup {path} |->
                                       IF p = path THEN left.text ELSE content[p]]
                     /\ listing' = [listing EXCEPT ![TTop.folder] =
                                       WithFile(@, TxtName(name))]
                ELSE UNCHANGED <<exists, content, listing>>
             /\ calls' = Append(calls, [folder |-> TTop.folder, name |-> name,
                                        txt |-> TxtName(name), service |-> service,
                                        outcome |-> outcome])
             /\ inFlight' = inFlight \ {<<"provider", TTop.folder, name>>}
             /\ tPc' = AfterCall(outcome)
    /\ tStack' = [tStack EXCEPT ![Len(tStack)] = [@ EXCEPT !.awaiting = NoItem]]
    /\ UNCHANGED <<stack, files, writes, writeFailed, finished, failedAt, walkPc>>
    /\ UNCHANGED <<mode, service, openaiApiKey, tFinished, decisions>>

\* Any other entry is passed over
TSkipItem ==
    /\ TAtItem
    /\ \/ TTopItem.kind = "other"
       \/ TTopItem.kind = "file" /\ ~IsSupported(TTopItem.name)
    /\ tStack' = TAdvanced(NoItem)
    /\ UNCHANGED walkVars
    /\ UNCHANGED <<mode, service, openaiApiKey, content, tFinished, decisions, calls, tPc>>

\* After the loop the call returns to its caller
TFinishFolder ==
    /\ tPc = "running"
    /\ tStack # <<>>
    /\ Looping(TTop)
    /\ TTop.idx > Len(TTop.items)
    /\ tFinished' = tFinished \cup {TTop.folder}
    /\ tStack' = SubSeq(tStack, 1, Len(tStack) - 1)
    /\ tPc' = IF Len(tStack) = 1 THEN "done" ELSE tPc
    /\ UNCHANGED walkVars
    /\ UNCHANGED <<mode, service, openaiApiKey, content, decisions, calls>>

\* As SummaryDue, were processTranscription not awaited
SummaryDueAtOnce == Summarises(mode) /\ tPc # "failed"

\* main: the summary walk starts when the mode asks for it, after the
\* transcription walk when there is one
SummaryDue ==
    /\ Summarises(mode)
    /\ Transcribes(mode) => tPc = "done"

ProcessSummary == SummaryDue /\ StartSummary

\* main has returned
RunCompleted ==
    /\ Transcribes(mode) => tPc = "done"
    /\ Summarises(mode) => walkPc = "done"

\* main has thrown: the process exits with status 1
RunFailed == tPc = "failed" \/ walkPc = "failed"

-----------------------------------------------------------------------------
(* The tree-level aggregation of the specification (section 4.6): the       *)
(* folder summaries are collected, merged into the base summary.csv, and    *)
(* counted into overview rows; the grouped lists are rebuilt from the       *)
(* analysis sidecars                                                        *)

\* Step 1: the subdirectories below f that hold a summary.csv, in the order
\* of a depth-first walk that follows the listings; f itself is not collected
RECURSIVE CollectFrom(_, _, _, _)
CollectFrom(l, ex, f, i) ==
    IF i > Len(l[f]) THEN <<>>
    ELSE (IF l[f][i].kind = "dir"
          THEN (IF <<l[f][i].folder, SummaryCsvName>> \in ex
                THEN <<l[f][i].folder>> ELSE <<>>)
               \o CollectFrom(l, ex, l[f][i].folder, 1)
          ELSE <<>>)
         \o CollectFrom(l, ex, f, i + 1)

Collected(l, ex) == CollectFrom(l, ex, "root", 1)

Lines(text) == Split(text, "\n")

IsBlankLine(line) == Trim(line) = <<>>

\* The lines from the i-th on that are not blank
RECURSIVE NonBlankFrom(_, _)
NonBlankFrom(lines, i) ==
    IF i > Len(lines) THEN <<>>
    ELSE (IF IsBlankLine(lines[i]) THEN <<>> ELSE <<lines[i]>>)
         \o NonBlankFrom(lines, i + 1)

HeaderLine(text) == Lines(text)[1]

\* As DataLines, were the header row of the file taken for data
DataLinesWithHeader(text) == NonBlankFrom(Lines(text), 1)

\* The lines of a summary.csv after its header row that are not blank
DataLines(text) == NonBlankFrom(Lines(text), 2)

RECURSIVE MergedBody(_)
MergedBody(texts) ==
    IF texts = <<>> THEN <<>>
    ELSE DataLines(Head(texts)) \o MergedBody(Tail(texts))

\* Step 2: the header row of the first file, then the data lines of every file
MergedLines(texts) == <<HeaderLine(texts[1])>> \o MergedBody(texts)

MergeCsv(texts) == Join(MergedLines(texts), <<"\n">>) \o <<"\n">>

\* Step 3: a column is found by its header, compared ignoring case; 0 when
\* there is none
ColumnIndex(headers, name) ==
    LET hits == {i \in 1..Len(headers) : ToLower(Trim(headers[i])) = name}
    IN IF hits = {} THEN 0 ELSE CHOOSE i \in hits : \A j \in hits : i <= j

FieldAt(row, i) == IF i = 0 \/ i > Len(row) THEN <<>> ELSE row[i]

\* What the statistics read of each row of a summary.csv
StatRows(text) ==
    LET parsed == ParseCsv(text)
        d == ColumnIndex(parsed.headers, <<"d","u","r","a","t","i","o","n">>)
        p == ColumnIndex(parsed.headers, <<"p","h","o","n","e"," ","n","u","m","b","e","r">>)
        c == ColumnIndex(parsed.headers, <<"c","a","l","l"," ","t","y","p","e">>)
    IN [k \in 1..Len(parsed.rows) |->
           [seconds |-> HmsToSeconds(FieldAt(parsed.rows[k], d)),
            phone |-> Trim(FieldAt(parsed.rows[k], p)),
            bucket |-> Classify(<<>>, FieldAt(parsed.rows[k], c))]]

RECURSIVE SumOf(_)
SumOf(numbers) == IF numbers = <<>> THEN 0 ELSE Head(numbers) + SumOf(Tail(numbers))

FolderStats(text) ==
    LET rows == StatRows(text)
        all == 1..Len(rows)
        long == {k \in all : rows[k].seconds > 60}
    IN [total |-> Len(rows),
        phones |-> {rows[k].phone : k \in all} \ {<<>>},
        overMinute |-> Cardinality(long),
        incoming |-> Cardinality({k \in all : rows[k].bucket = "incoming"}),
        outgoing |-> Cardinality({k \in all : rows[k].bucket = "outgoing"}),
        talkSeconds |-> SumOf([k \in all |-> rows[k].seconds]),
        outgoingLongPhones |->
            {rows[k].phone : k \in {j \in long : rows[j].bucket = "outgoing"}} \ {<<>>}]

\* One row of overview.csv
OverviewRow(name, total, phones, long, incoming, outgoing, outgoingLong, talk) ==
    [folder |-> name,
     totalCalls |-> total,
     uniquePhones |-> phones,
     callsOver1Min |-> long,
     incoming |-> incoming,
     outgoing |-> outgoing,
     uniqueOutgoingLong |-> outgoingLong,
     totalTalkTime |-> SecondsToHms(talk)]

FolderRow(name, st) ==
    OverviewRow(name, st.total, Cardinality(st.phones), st.overMinute, st.incoming,
                st.outgoing, Cardinality(st.outgoingLongPhones), st.talkSeconds)

\* As OverallRow, were the unique counts of the folders added up
OverallRowSummed(stats) ==
    LET all == 1..Len(stats)
    IN OverviewRow("OVERALL",
           SumOf([k \in all |-> stats[k].total]),
           SumOf([k \in all |-> Cardinality(stats[k].phones)]),
           SumOf([k \in all |-> stats[k].overMinute]),
           SumOf([k \in all |-> stats[k].incoming]),
           SumOf([k \in all |-> stats[k].outgoing]),
           SumOf([k \in all |-> Cardinality(stats[k].outgoingLongPhones)]),
           SumOf([k \in all |-> stats[k].talkSeconds]))

\* Step 6: the counts are summed, the phone sets united
OverallRow(stats) ==
    LET all == 1..Len(stats)
    IN OverviewRow("OVERALL",
           SumOf([k \in all |-> stats[k].total]),
           Cardinality(UNION {stats[k].phones : k \in all}),
           SumOf([k \in all |-> stats[k].overMinute]),
           SumOf([k \in all |-> stats[k].incoming]),
           SumOf([k \in all |-> stats[k].outgoing]),
           Cardinality(UNION {stats[k].outgoingLongPhones : k \in all}),
           SumOf([k \in all |-> stats[k].talkSeconds]))

\* Step 7: one row per collected folder, then the OVERALL row
Overview(folders, texts) ==
    LET stats == [k \in 1..Len(folders) |-> FolderStats(texts[k])]
    IN [k \in 1..Len(folders) |-> FolderRow(folders[k], stats[k])]
       \o <<OverallRow(stats)>>

AnalysisSuffix == <<"_","a","n","a","l","y","s","i","s",".","j","s","o","n">>

IsAnalysisName(name) ==
    /\ Len(name) > Len(AnalysisSuffix)
    /\ From(name, Len(name) - Len(AnalysisSuffix) + 1) = AnalysisSuffix

\* Step 8: one element per analysis sidecar of a collected folder, its
\* metadata derived from the sidecar's base name
RECURSIVE GroupedFrom(_, _, _, _)
GroupedFrom(l, an, f, i) ==
    IF i > Len(l[f]) THEN <<>>
    ELSE (IF l[f][i].kind = "file" /\ IsAnalysisName(l[f][i].name)
          THEN LET base == SubSeq(l[f][i].name, 1,
                                  Len(l[f][i].name) - Len(AnalysisSuffix))
                   md == IndexParseFilenameMetadata(base)
               IN << [filename |-> base,
                      callType |-> md.callType,
                      timestamp |-> md.timestamp,
                      phoneNumber |-> md.phoneNumber,
                      bucket |-> Classify(an[<<f, l[f][i].name>>], md.callType)] >>
          ELSE <<>>)
         \o GroupedFrom(l, an, f, i + 1)

RECURSIVE GroupedOf(_, _, _)
GroupedOf(l, an, folders) ==
    IF folders = <<>> THEN <<>>
    ELSE GroupedFrom(l, an, Head(folders), 1) \o GroupedOf(l, an, Tail(folders))

\* The elements of one grouped file, in the order met
RECURSIVE InBucket(_, _)
InBucket(elements, b) ==
    IF elements = <<>> THEN <<>>
    ELSE (IF Head(elements).bucket = b THEN <<Head(elements)>> ELSE <<>>)
         \o InBucket(Tail(elements), b)

GroupedFiles(l, an, folders) ==
    [b \in {"outgoing", "incoming", "deactivation"} |->
        InBucket(GroupedOf(l, an, folders), b)]

NoGrouped == [b \in {"outgoing", "incoming", "deactivation"} |-> <<>>]

\* The tree the folder summaries lie in
TreeShape ==
    [ root |-> << Dir("a", <<"a">>), File(<<"n",".","t","x","t">>), Dir("b", <<"b">>) >>,
      a |-> << File(<<"r","e","c","-","T","P","3","1","2","3","T","P","4","o","u","t","g","o","i","n","g","_","a","n","a","l","y","s","i","s",".","j","s","o","n">>), Dir("a1", <<"a","1">>) >>,
      a1 |-> << File(<<"r","e","c","-","T","P","3","4","5","6","T","P","4","i","n","c","o","m","i","n","g","_","a","n","a","l","y","s","i","s",".","j","s","o","n">>) >>,
      b |-> << File(<<"r","e","c","-","T","P","3","4","5","6","T","P","4","O","u","t","g","o","i","n","g","_","a","n","a","l","y","s","i","s",".","j","s","o","n">>) >> ]

StatRow(duration, phone, callType) ==
    SummaryRow(<<"c","a","l","l",".","m","p","3">>, duration, FALSE,
               [timestamp |-> <<"2","0","2","5","-","0","8","-","2","0"," ","0","3",":","0","5",":","4","8">>, phoneNumber |-> phone,
                callType |-> callType])

\* The summary.csv files the folders may hold
SummaryTexts ==
    { GenerateCsv(<< StatRow(<<"0","0",":","0","0",":","3","0">>, <<"1","2","3">>, <<"o","u","t","g","o","i","n","g">>),
                     StatRow(<<"0","0",":","0","1",":","3","0">>, <<"1","2","3">>, <<"o","u","t","g","o","i","n","g">>) >>),
      GenerateCsv(<< StatRow(<<"0","0",":","0","2",":","0","0">>, <<"4","5","6">>, <<"i","n","c","o","m","i","n","g">>) >>),
      GenerateCsv(<< StatRow(<<"0","0",":","0","1",":","0","0">>, <<"1","2","3">>, <<"O","u","t","g","o","i","n","g",".","a","m","r">>),
                     StatRow(<<"0","0",":","0","1",":","0","1">>, <<" ","4","5","6"," ">>, <<"I","N","C","O","M","M","I","N","G">>),
                     StatRow(<<>>, <<>>, <<"N","/","A">>) >>),
      <<"p","h","o","n","e"," ","n","u","m","b","e","r",",","D","U","R","A","T","I","O","N",",","C","a","l","l"," ","T","y","p","e","\n","\n","1","2","3",",","0","5",":","0","0",",","o","u","t","g","o","i","n","g","\n"," "," ","\n","7","8","9",",","6","1",",","m","i","s","s","e","d","\n","\n">>,
      Join(CsvHeaders, <<",">>) \o <<"\n">> }

\* Those of them the innermost folder may hold
DeepTexts ==
    { GenerateCsv(<< StatRow(<<"0","0",":","0","1",":","0","0">>, <<"1","2","3">>, <<"O","u","t","g","o","i","n","g",".","a","m","r">>),
                     StatRow(<<"0","0",":","0","1",":","0","1">>, <<" ","4","5","6"," ">>, <<"I","N","C","O","M","M","I","N","G">>),
                     StatRow(<<>>, <<>>, <<"N","/","A">>) >>),
      Join(CsvHeaders, <<",">>) \o <<"\n">> }

\* The call_tags the analysis sidecars may hold
AnalysisTagLists == { <<>>, << <<"D","e","a","c","t","i","v","a","t","i","o","n">> >> }

TreeIdle ==
    /\ analyses = [p \in {} |-> <<>>]
    /\ collected = <<>>
    /\ overview = <<>>
    /\ grouped = NoGrouped
    /\ probed = [p \in {} |-> <<>>]
    /\ firstRun = [files |-> <<>>, overview |-> <<>>, grouped |-> NoGrouped,
                   collected |-> <<>>]
    /\ runs = 0
    /\ aggPc = "idle"

AnalysisPaths(l) == {p \in RegularFiles(l) : IsAnalysisName(p[2])}

TreeStart ==
    /\ listing = TreeShape
    /\ files \in [Folders -> SummaryTexts \cup {<<>>, StaleCsv}]
    /\ files["root"] \in {<<>>, StaleCsv}
    /\ files["a1"] \in DeepTexts \cup {<<>>}
    /\ \A f \in {"a", "b"} : files[f] # StaleCsv
    /\ exists = RegularFiles(listing)
                   \cup {<<f, SummaryCsvName>> : f \in {g \in Folders : files[g] # <<>>}}
    /\ stack = <<>>
    /\ writes = [f \in Folders |-> 0]
    /\ writeFailed = {}
    /\ finished = {}
    /\ failedAt = ""
    /\ inFlight = {}
    /\ walkPc = "idle"
    /\ \E tags \in AnalysisTagLists :
          analyses = [p \in AnalysisPaths(listing) |->
                         IF p[1] = "a" THEN tags ELSE <<>>]
    /\ collected = <<>>
    /\ overview = <<>>
    /\ grouped = NoGrouped
    /\ probed = [p \in {} |-> <<>>]
    /\ firstRun = [files |-> <<>>, overview |-> <<>>, grouped |-> NoGrouped,
                   collected |-> <<>>]
    /\ runs = 1
    /\ aggPc = "idle"

TextsOf(folders) == [k \in 1..Len(folders) |-> files[folders[k]]]

\* aggregate(baseFolder): steps 1 to 8 in one pass; with no folder summary
\* collected nothing is written
AggregateTree ==
    /\ aggPc = "idle"
    /\ collected' = Collected(listing, exists)
    /\ IF collected' = <<>>
       THEN UNCHANGED <<files, exists, overview, grouped>>
       ELSE /\ files' = [files EXCEPT !["root"] =
                            WriteFile(@, MergeCsv(TextsOf(collected')))]
            /\ exists' = exists \cup {<<"root", SummaryCsvName>>}
            /\ overview' = Overview(collected', TextsOf(collected'))
            /\ grouped' = GroupedFiles(listing, analyses, collected')
    /\ aggPc' = "done"
    /\ UNCHANGED <<listing, stack, writes, writeFailed, finished, failedAt, inFlight,
                   walkPc>>
    /\ UNCHANGED <<analyses, probed, firstRun, runs>>

-----------------------------------------------------------------------------
(* The full aggregation run twice on the same tree                          *)

OverviewCsvName == <<"o","v","e","r","v","i","e","w",".","c","s","v">>

GroupedNames == { <<"o","u","t","g","o","i","n","g","_","c","a","l","l","s",".","j","s","o","n">>, <<"i","n","c","o","m","i","n","g","_","c","a","l","l","s",".","j","s","o","n">>,
                  <<"d","e","a","c","t","i","v","a","t","i","o","n","_","c","a","l","l","s",".","j","s","o","n">> }

\* The trees the aggregation is run twice on
RerunTrees ==
    { [ root |-> << Dir("a", <<"a">>), File(<<"x",".","m","p","3">>), Dir("b", <<"b">>) >>,
        a |-> << File(<<"r","e","c","-","T","P","3","1","2","3","T","P","4","o","u","t","g","o","i","n","g",".","m","p","3">>),
                 File(<<"r","e","c","-","T","P","3","1","2","3","T","P","4","o","u","t","g","o","i","n","g","_","a","n","a","l","y","s","i","s",".","j","s","o","n">>), Dir("a1", <<"a","1">>) >>,
        a1 |-> << >>,
        b |-> << File(<<"y",".","W","A","V">>), File(<<"y",".","W","A","V",".","t","x","t">>) >> ],
      [ root |-> << Dir("a", <<"a">>), File(<<"n",".","t","x","t">>), Dir("b", <<"b">>) >>,
        a |-> << Dir("a1", <<"a","1">>), File(<<"x",".","m","p","3">>) >>,
        a1 |-> << File(<<"r","e","c","-","T","P","3","4","5","6","T","P","4","i","n","c","o","m","i","n","g",".","a","m","r">>),
                  File(<<"r","e","c","-","T","P","3","4","5","6","T","P","4","i","n","c","o","m","i","n","g","_","a","n","a","l","y","s","i","s",".","j","s","o","n">>) >>,
        b |-> << File(SummaryCsvName), File(<<"n",".","t","x","t">>) >> ] }

RerunStart ==
    /\ listing \in RerunTrees
    /\ exists = RegularFiles(listing)
    /\ stack = <<>>
    /\ files = [f \in Folders |->
                  IF HasFile(listing[f], SummaryCsvName) THEN StaleCsv ELSE <<>>]
    /\ writes = [f \in Folders |-> 0]
    /\ writeFailed = {}
    /\ finished = {}
    /\ failedAt = ""
    /\ inFlight = {}
    /\ walkPc = "idle"
    /\ \E tags \in AnalysisTagLists :
          analyses = [p \in AnalysisPaths(listing) |-> tags]
    /\ collected = <<>>
    /\ overview = <<>>
    /\ grouped = NoGrouped
    /\ probed = [p \in {} |-> <<>>]
    /\ firstRun = [files |-> <<>>, overview |-> <<>>, grouped |-> NoGrouped,
                   collected |-> <<>>]
    /\ runs = 1
    /\ aggPc = "idle"

\* The duration provider reports for a file what it reported for it before
Reported ==
    LET path == <<Top.folder, Top.awaiting.name>>
        rows == stack'[Len(stack)].csvData
        duration == rows[Len(rows)].duration
    IN IF path \in DOMAIN probed
       THEN duration = probed[path] /\ probed' = probed
       ELSE probed' = [p \in DOMAIN probed \cup {path} |->
                          IF p = path THEN duration ELSE probed[p]]

\* The tree aggregation follows the summary walk
AggregateAfterWalk == walkPc = "done" /\ AggregateTree

RECURSIVE WithFiles(_, _)
WithFiles(items, names) ==
    IF names = {} THEN items
    ELSE LET name == CHOOSE n \in names : \A o \in names : Len(n) <= Len(o)
         IN WithFiles(WithFile(items, name), names \ {name})

\* The files a run has written in folder f
OutputsIn(f) ==
    (IF <<f, SummaryCsvName>> \in exists THEN {SummaryCsvName} ELSE {})
       \cup (IF f = "root" /\ collected # <<>>
             THEN {OverviewCsvName} \cup GroupedNames ELSE {})

\* The program is started again on the tree as the first run left it
Rerun ==
    /\ aggPc = "done"
    /\ runs = 1
    /\ firstRun' = [files |-> files, overview |-> overview, grouped |-> grouped,
                    collected |-> collected]
    /\ runs' = 2
    /\ listing' = [f \in Folders |-> WithFiles(listing[f], OutputsIn(f))]
    /\ exists' = exists \cup UNION {{<<f, n>> : n \in OutputsIn(f)} : f \in Folders}
    /\ stack' = <<>>
    /\ walkPc' = "idle"
    /\ finished' = {}
    /\ writes' = [f \in Folders |-> 0]
    /\ collected' = <<>>
    /\ aggPc' = "idle"
    /\ UNCHANGED <<files, writeFailed, failedAt, inFlight>>
    /\ UNCHANGED <<analyses, overview, grouped, probed>>

-----------------------------------------------------------------------------
(* The hourly histogram of the tree overview                               *)

\* How many rows are handed to the histogram
MaxHourRows == 2

\* As HourField, were the field taken one character earlier
HourFieldShifted(timestamp) == SubSeq(timestamp, 11, 12)

\* The characters at positions 11 to 13 of the timestamp, counted from 0 and
\* without the last: the HH of "YYYY-MM-DD HH:MM:SS"
HourField(timestamp) == SubSeq(timestamp, 12, 13)

\* The hour the field parses to, or -1 when it is no integer
ParseHour(field) ==
    IF Len(field) = 2 /\ AllIn(field, DigitSet) THEN DigitsValue(field) ELSE -1

\* The bucket of a row, or -1 when it has none
HourOf(row) ==
    IF row.timestamp = <<>> \/ row.duration = <<>> \/ Len(row.timestamp) < 13
    THEN -1
    ELSE LET hour == ParseHour(HourField(row.timestamp))
         IN IF hour >= 0 /\ hour <= 23 THEN hour ELSE -1

EmptyBuckets == [h \in 0..23 |-> [totalSeconds |-> 0, calls |-> 0]]

\* One row is accumulated into the 24-slot array
Accumulated(buckets, row) ==
    IF HourOf(row) = -1 THEN buckets
    ELSE [buckets EXCEPT ![HourOf(row)] =
             [totalSeconds |-> @.totalSeconds + HmsToSeconds(row.duration),
              calls |-> @.calls + 1]]

HourTimestamps ==
    { <<"2","0","2","5","-","0","8","-","2","0"," ","0","3",":","0","5",":","4","8">>, <<"2","0","2","5","-","0","8","-","2","0"," ","0","0",":","0","0",":","0","0">>, <<"2","0","2","5","-","0","8","-","2","0"," ","2","3",":","5","9",":","5","9">>,
      <<"2","0","2","5","-","1","1","-","0","7"," ","1","5",":","0","7",":","0","0">>, <<"2","0","2","5","-","0","8","-","2","0"," ","2","4",":","0","0",":","0","0">>, <<"2","0","2","5","-","0","8","-","2","0"," ","0">>,
      <<"2","0","2","5","-","0","8","-","2","0"," ","0","3">>, <<"2","0","2","5","-","0","8","-","2","0"," ","x","x",":","0","5",":","4","8">>, <<"N","/","A">>, <<>> }

HourDurations == { <<"0","0",":","0","0",":","3","0">>, <<"0","0",":","0","1",":","0","0">>, <<"0","1",":","0","0",":","0","1">>, <<>> }

HourRowInputs == [timestamp : HourTimestamps, duration : HourDurations]

HourIdle ==
    /\ hourLog = <<>>
    /\ hourly = EmptyBuckets

\* The rows of the collected files are met one by one
AddToHistogram(row) ==
    /\ Len(hourLog) < MaxHourRows
    /\ hourLog' = Append(hourLog, row)
    /\ hourly' = Accumulated(hourly, row)

-----------------------------------------------------------------------------
(* One provider call: transcribeFileGoogle and transcribeFile (Whisper),   *)
(* statement by statement                                                   *)

\* parseInt(part) || 0: the leading digits after leading white space
LeadingDigits(s, i) ==
    LET stop == {j \in i..Len(s) : ~IsDigit(s[j])}
        last == IF stop = {} THEN Len(s) ELSE (CHOOSE j \in stop : \A k \in stop : j <= k) - 1
    IN SubSeq(s, i, last)

ParseIntOrZero(part) ==
    LET text == {j \in 1..Len(part) : part[j] \notin SpaceSet}
        first == IF text = {} THEN Len(part) + 1
                 ELSE CHOOSE j \in text : \A k \in text : j <= k
    IN DigitsValue(LeadingDigits(part, first))

\* What the ffmpeg pipeline of getAudioDuration may give: the fourth field of
\* the Duration line, nothing, or an error of the command
ProbeOutput(text) == [failed |-> FALSE, stdout |-> text]
ProbeFailed == [failed |-> TRUE, stdout |-> <<>>]

\* getAudioDuration: the text before the first ".", or null (<<>>)
GetAudioDuration(out) ==
    IF out.failed THEN <<>>
    ELSE LET duration == Trim(out.stdout)
         IN IF duration = <<>> THEN <<>> ELSE Split(duration, ".")[1]

\* As IsLongerThanOneMinute, were one minute itself long
IsAtLeastOneMinute(duration) ==
    LET parts == Split(duration, ":")
    IN IF Len(parts) # 3 THEN FALSE
       ELSE (ParseIntOrZero(parts[1]) * 60 + ParseIntOrZero(parts[2])) * 60
               + ParseIntOrZero(parts[3]) >= 60

\* isLongerThanOneMinute: hours * 60 + minutes + seconds / 60 > 1, in seconds
IsLongerThanOneMinute(duration) ==
    LET parts == Split(duration, ":")
    IN IF Len(parts) # 3 THEN FALSE
       ELSE (ParseIntOrZero(parts[1]) * 60 + ParseIntOrZero(parts[2])) * 60
               + ParseIntOrZero(parts[3]) > 60

\* audioDuration && isLongerThanOneMinute(audioDuration)
UsesLongRunning(duration) == duration # <<>> /\ IsLongerThanOneMinute(duration)

\* duration || 'N/A'
OrNotAvailable(duration) == IF duration = <<>> THEN <<"N","/","A">> ELSE duration

WavPath == <<"/","t","m","p","/","c","o","n","v","e","r","t","e","d","_","1","_","c","a","l","l",".","w","a","v">>
GcsObject == <<"g","s",":","/","/","y","o","u","r","-","t","r","a","n","s","c","r","i","p","t","i","o","n","-","b","u","c","k","e","t","/","t","r","a","n","s","c","r","i","p","t","i","o","n","s","/","1","_","c","a","l","l",".","m","p","3">>

NoResult == [returned |-> FALSE, duration |-> <<>>]
Result(duration) == [returned |-> TRUE, duration |-> duration]

ProbeOutputs ==
    { ProbeOutput(<<"0","0",":","0","0",":","5","9",".","9","9","\n">>), ProbeOutput(<<"0","0",":","0","1",":","0","0",".","0","0","\n">>),
      ProbeOutput(<<"0","0",":","0","1",":","0","0",".","9","8","\n">>), ProbeOutput(<<"0","0",":","0","1",":","0","1",".","0","2","\n">>),
      ProbeOutput(<<"0","1",":","0","0",":","0","0",".","0","0","\n">>), ProbeOutput(<<"N","/","A","\n">>), ProbeOutput(<<>>),
      ProbeFailed }

CallIdle ==
    /\ provider = "none"
    /\ fileExt = <<>>
    /\ ffmpegOut = ProbeFailed
    /\ tooLarge = FALSE
    /\ callPc = "idle"
    /\ tempWavPath = <<>>
    /\ gcsUri = <<>>
    /\ audioDuration = <<>>
    /\ tests = <<>>
    /\ apiCalls = <<>>
    /\ tmpFiles = {}
    /\ unlinks = <<>>
    /\ gcsObjects = {}
    /\ gcsDeletes = <<>>
    /\ txtFile = NotWritten
    /\ response = "none"
    /\ pending = NoResult
    /\ result = NoResult

CallStart ==
    /\ provider \in {"google", "whisper"}
    /\ fileExt \in {<<".","a","m","r">>, <<".","m","p","3">>}
    /\ ffmpegOut \in ProbeOutputs
    /\ tooLarge \in (IF provider = "google" THEN BOOLEAN ELSE {FALSE})
    /\ callPc = "begin"
    /\ tempWavPath = <<>>
    /\ gcsUri = <<>>
    /\ audioDuration = <<>>
    /\ tests = <<>>
    /\ apiCalls = <<>>
    /\ tmpFiles = {}
    /\ unlinks = <<>>
    /\ gcsObjects = {}
    /\ gcsDeletes = <<>>
    /\ txtFile = NotWritten
    /\ response = "none"
    /\ pending = NoResult
    /\ result = NoResult

\* convertAmrToWav: the command runs and the file is read, or the command
\* fails before it wrote anything, or the command or the read fails with the
\* file on disk; only a returned path reaches tempWavPath
ConvertAmrToWav ==
    /\ callPc = "begin"
    /\ fileExt = <<".","a","m","r">>
    /\ \E outcome \in {"converted", "failed", "failedAfterCreate"} :
          /\ tempWavPath' = IF outcome = "converted" THEN WavPath ELSE tempWavPath
          /\ tmpFiles' = IF outcome = "failed" THEN tmpFiles ELSE tmpFiles \cup {WavPath}
          /\ callPc' = IF outcome = "converted" THEN "loaded" ELSE "catch"
    /\ UNCHANGED <<provider, fileExt, ffmpegOut, tooLarge, gcsUri, audioDuration, tests,
                   apiCalls, unlinks, gcsObjects, gcsDeletes, txtFile, response, pending,
                   result>>

\* fs.readFile(filePath) of a file that needs no conversion
ReadAudioFile ==
    /\ callPc = "begin"
    /\ fileExt # <<".","a","m","r">>
    /\ \E ok \in BOOLEAN : callPc' = IF ok THEN "loaded" ELSE "catch"
    /\ UNCHANGED <<provider, fileExt, ffmpegOut, tooLarge, tempWavPath, gcsUri,
                   audioDuration, tests, apiCalls, tmpFiles, unlinks, gcsObjects,
                   gcsDeletes, txtFile, response, pending, result>>

\* The 10 MB limit, then getAudioDuration(filePath)
CheckAudioDuration ==
    /\ callPc = "loaded"
    /\ provider = "google"
    /\ IF tooLarge
       THEN callPc' = "catch" /\ UNCHANGED audioDuration
       ELSE callPc' = "probed" /\ audioDuration' = GetAudioDuration(ffmpegOut)
    /\ UNCHANGED <<provider, fileExt, ffmpegOut, tooLarge, tempWavPath, gcsUri, tests,
                   apiCalls, tmpFiles, unlinks, gcsObjects, gcsDeletes, txtFile, response,
                   pending, result>>

\* The first test: the upload to GCS, or the inline request
BuildRequest ==
    /\ callPc = "probed"
    /\ tests' = Append(tests, UsesLongRunning(audioDuration))
    /\ IF UsesLongRunning(audioDuration)
       THEN \E uploaded \in BOOLEAN :
               /\ callPc' = IF uploaded THEN "requested" ELSE "catch"
               /\ gcsUri' = IF uploaded THEN GcsObject ELSE gcsUri
               /\ gcsObjects' = IF uploaded THEN gcsObjects \cup {GcsObject} ELSE gcsObjects
       ELSE callPc' = "requested" /\ UNCHANGED <<gcsUri, gcsObjects>>
    /\ UNCHANGED <<provider, fileExt, ffmpegOut, tooLarge, tempWavPath, audioDuration,
                   apiCalls, tmpFiles, unlinks, gcsDeletes, txtFile, response, pending,
                   result>>

\* The second test: longRunningRecognize and its operation, or recognize
Recognize ==
    /\ callPc = "requested"
    /\ tests' = Append(tests, UsesLongRunning(audioDuration))
    /\ apiCalls' = Append(apiCalls, IF UsesLongRunning(audioDuration)
                                    THEN [api |-> "longRunningRecognize", audio |-> gcsUri]
                                    ELSE [api |-> "recognize", audio |-> <<"i","n","l","i","n","e">>])
    /\ \E answer \in {"text", "empty", "error"} :
          /\ response' = answer
          /\ callPc' = IF answer = "error" THEN "catch" ELSE "recognized"
    /\ UNCHANGED <<provider, fileExt, ffmpegOut, tooLarge, tempWavPath, gcsUri,
                   audioDuration, tmpFiles, unlinks, gcsObjects, gcsDeletes, txtFile,
                   pending, result>>

\* openai.audio.transcriptions.create
CreateTranscription ==
    /\ callPc = "loaded"
    /\ provider = "whisper"
    /\ apiCalls' = Append(apiCalls, [api |-> "whisper", audio |-> <<"i","n","l","i","n","e">>])
    /\ \E answer \in {"text", "empty", "error"} :
          /\ response' = answer
          /\ callPc' = IF answer = "error" THEN "catch" ELSE "recognized"
    /\ UNCHANGED <<provider, fileExt, ffmpegOut, tooLarge, tempWavPath, gcsUri,
                   audioDuration, tests, tmpFiles, unlinks, gcsObjects, gcsDeletes,
                   txtFile, pending, result>>

\* fs.writeFile(txtPath, ...), then the duration for the return value
SaveTranscription ==
    /\ callPc = "recognized"
    /\ \E saved \in BOOLEAN :
          IF saved
          THEN /\ txtFile' = Transcribed(provider, response)
               /\ \E out \in {ffmpegOut, ProbeFailed} :
                     pending' = Result(OrNotAvailable(GetAudioDuration(out)))
               /\ callPc' = "finally"
          ELSE /\ callPc' = "catch"
               /\ UNCHANGED <<txtFile, pending>>
    /\ UNCHANGED <<provider, fileExt, ffmpegOut, tooLarge, tempWavPath, gcsUri,
                   audioDuration, tests, apiCalls, tmpFiles, unlinks, gcsObjects,
                   gcsDeletes, response, result>>

\* The catch block: Google deletes the object it uploaded and writes the
\* failure marker; both return 'N/A'
CatchError ==
    /\ callPc = "catch"
    /\ IF provider = "google" /\ gcsUri # <<>>
       THEN /\ gcsDeletes' = Append(gcsDeletes, gcsUri)
            /\ \E deleted \in BOOLEAN :
                  gcsObjects' = IF deleted THEN gcsObjects \ {gcsUri} ELSE gcsObjects
       ELSE UNCHANGED <<gcsDeletes, gcsObjects>>
    /\ IF provider = "google"
       THEN \E saved \in BOOLEAN :
               txtFile' = IF saved THEN Transcribed(provider, "failed") ELSE txtFile
       ELSE UNCHANGED txtFile
    /\ pending' = Result(<<"N","/","A">>)
    /\ callPc' = "finally"
    /\ UNCHANGED <<provider, fileExt, ffmpegOut, tooLarge, tempWavPath, gcsUri,
                   audioDuration, tests, apiCalls, tmpFiles, unlinks, response, result>>

\* As Unlinked, were the temporary file left alone after an error
UnlinkedOnSuccess(path, value) == path # <<>> /\ value.duration # <<"N","/","A">>

\* if (tempWavPath): the finally block unlinks whatever the try returned
Unlinked(path, value) == path # <<>>

\* The finally block, then the call returns
FinallyCleanUp ==
    /\ callPc = "finally"
    /\ IF Unlinked(tempWavPath, pending)
       THEN /\ unlinks' = Append(unlinks, tempWavPath)
            /\ \E removed \in BOOLEAN :
                  tmpFiles' = IF removed THEN tmpFiles \ {tempWavPath} ELSE tmpFiles
       ELSE UNCHANGED <<unlinks, tmpFiles>>
    /\ result' = pending
    /\ callPc' = "returned"
    /\ UNCHANGED <<provider, fileExt, ffmpegOut, tooLarge, tempWavPath, gcsUri,
                   audioDuration, tests, apiCalls, gcsObjects, gcsDeletes, txtFile,
                   response, pending>>

-----------------------------------------------------------------------------
(* transcribeFileSpeechmatics: the job is submitted, its status is polled, *)
(* the transcript is fetched and saved                                     *)

\* const maxAttempts = 120
MaxAttempts == 120

\* The statuses the job endpoint may report; the last is none the code knows
JobStatuses ==
    {"queued", "running", "processing", "done", "completed", "failed", "error", "mystery"}

\* How a status request may end: an OK response carrying a status, a response
\* that is not OK, or a fetch that rejects
StatusAnswers ==
    {[ok |-> TRUE, status |-> s] : s \in JobStatuses}
    \cup {[ok |-> FALSE, status |-> "http 500"], [ok |-> FALSE, status |-> "rejected"]}

\* jobStatus === 'done' || jobStatus === 'completed'
IsDone(status) == status \in {"done", "completed"}

\* jobStatus === 'failed' || jobStatus === 'error'
IsFailed(status) == status \in {"failed", "error"}

\* As ConsumesAttempt, were only the statuses the code names counted
ConsumesKnownAttempt(status) == status \in {"queued", "running", "processing"}

\* attempts++ is reached by every status that neither breaks nor throws
ConsumesAttempt(status) == ~IsDone(status) /\ ~IsFailed(status)

TimedOutMessage == <<"T","r","a","n","s","c","r","i","p","t","i","o","n"," ","t","i","m","e","d"," ","o","u","t">>
JobFailedMessage == <<"T","r","a","n","s","c","r","i","p","t","i","o","n"," ","f","a","i","l","e","d",":"," ","U","n","k","n","o","w","n"," ","e","r","r","o","r">>
StatusCheckMessage == <<"F","a","i","l","e","d"," ","t","o"," ","c","h","e","c","k"," ","j","o","b"," ","s","t","a","t","u","s",":"," ","5","0","0"," ","-"," ">>
ResultMessage == <<"F","a","i","l","e","d"," ","t","o"," ","g","e","t"," ","t","r","a","n","s","c","r","i","p","t","i","o","n"," ","r","e","s","u","l","t",":"," ","5","0","0"," ","-"," ">>
SubmitMessage == <<"S","p","e","e","c","h","m","a","t","i","c","s"," ","A","P","I"," ","e","r","r","o","r",":"," ","4","0","1"," ","-"," ">>
OtherMessage == <<"U","n","k","n","o","w","n"," ","e","r","r","o","r">>

\* `[Transcription failed: ${error.message}]`
FailureMarker(message) == <<"[","T","r","a","n","s","c","r","i","p","t","i","o","n"," ","f","a","i","l","e","d",":"," ">> \o message \o <<"]">>

PollIdle ==
    /\ pollPc = "idle"
    /\ attempts = 0
    /\ awaitingStatus = FALSE
    /\ statusRequests = 0
    /\ jobStatus = "none"
    /\ transcriptFetches = 0
    /\ transcriptionResult = "null"
    /\ errorMessage = <<>>
    /\ speechTxt = NotWritten
    /\ speechResult = NoResult

PollStart ==
    /\ pollPc = "begin"
    /\ attempts = 0
    /\ awaitingStatus = FALSE
    /\ statusRequests = 0
    /\ jobStatus = "none"
    /\ transcriptFetches = 0
    /\ transcriptionResult = "null"
    /\ errorMessage = <<>>
    /\ speechTxt = NotWritten
    /\ speechResult = NoResult

\* The key, the read of the file and the POST of the job
SubmitJob ==
    /\ pollPc = "begin"
    /\ \E outcome \in {"submitted", "not OK", "threw"} :
          /\ pollPc' = IF outcome = "submitted" THEN "polling" ELSE "catch"
          /\ errorMessage' = IF outcome = "submitted" THEN errorMessage
                             ELSE IF outcome = "not OK" THEN SubmitMessage
                             ELSE OtherMessage
    /\ UNCHANGED <<attempts, awaitingStatus, statusRequests, jobStatus,
                   transcriptFetches, transcriptionResult, speechTxt, speechResult>>

\* while (attempts < maxAttempts): after the wait of one second the status
\* request is sent and awaited
RequestStatus ==
    /\ pollPc = "polling"
    /\ ~awaitingStatus
    /\ attempts < MaxAttempts
    /\ statusRequests < MaxAttempts + 2
    /\ awaitingStatus' = TRUE
    /\ statusRequests' = statusRequests + 1
    /\ UNCHANGED <<pollPc, attempts, jobStatus, transcriptFetches, transcriptionResult,
                   errorMessage, speechTxt, speechResult>>

\* The status request is answered
ReceiveStatus ==
    /\ pollPc = "polling"
    /\ awaitingStatus
    /\ awaitingStatus' = FALSE
    /\ \E answer \in StatusAnswers :
          /\ jobStatus' = answer.status
          /\ IF ~answer.ok
             THEN /\ pollPc' = "catch"
                  /\ errorMessage' = IF answer.status = "rejected" THEN OtherMessage
                                     ELSE StatusCheckMessage
                  /\ UNCHANGED attempts
             ELSE IF IsDone(answer.status)
             THEN pollPc' = "fetching" /\ UNCHANGED <<errorMessage, attempts>>
             ELSE IF IsFailed(answer.status)
             THEN /\ pollPc' = "catch"
                  /\ errorMessage' = JobFailedMessage
                  /\ UNCHANGED attempts
             ELSE /\ attempts' = IF ConsumesAttempt(answer.status)
                                 THEN attempts + 1 ELSE attempts
                  /\ UNCHANGED <<pollPc, errorMessage>>
    /\ UNCHANGED <<statusRequests, transcriptFetches, transcriptionResult, speechTxt,
                   speechResult>>

\* The transcript of a finished job is fetched; then break
FetchTranscript ==
    /\ pollPc = "fetching"
    /\ transcriptFetches' = transcriptFetches + 1
    /\ \E answer \in {"text", "empty", "not OK", "rejected"} :
          IF answer \in {"text", "empty"}
          THEN /\ transcriptionResult' = answer
               /\ pollPc' = "fetched"
               /\ UNCHANGED errorMessage
          ELSE /\ pollPc' = "catch"
               /\ errorMessage' = IF answer = "not OK" THEN ResultMessage ELSE OtherMessage
               /\ UNCHANGED transcriptionResult
    /\ UNCHANGED <<attempts, awaitingStatus, statusRequests, jobStatus, speechTxt,
                   speechResult>>

\* The loop ends with attempts = maxAttempts: if (!transcriptionResult) throw
TimeOut ==
    /\ pollPc = "polling"
    /\ ~awaitingStatus
    /\ attempts >= MaxAttempts
    /\ pollPc' = "catch"
    /\ errorMessage' = TimedOutMessage
    /\ UNCHANGED <<attempts, awaitingStatus, statusRequests, jobStatus,
                   transcriptFetches, transcriptionResult, speechTxt, speechResult>>

\* The text is written to txtPath and the duration returned
SaveSpeechTranscript ==
    /\ pollPc = "fetched"
    /\ \E saved \in BOOLEAN :
          IF saved
          THEN /\ speechTxt' = TranscribeFileSpeechmatics(transcriptionResult)
               /\ \E duration \in DurationResults :
                     speechResult' = Result(OrNotAvailable(duration))
               /\ pollPc' = "returned"
               /\ UNCHANGED errorMessage
          ELSE /\ pollPc' = "catch"
               /\ errorMessage' = OtherMessage
               /\ UNCHANGED <<speechTxt, speechResult>>
    /\ UNCHANGED <<attempts, awaitingStatus, statusRequests, jobStatus,
                   transcriptFetches, transcriptionResult>>

\* The catch block: the failure marker is written if it can be; 'N/A' returned
CatchSpeechError ==
    /\ pollPc = "catch"
    /\ \E saved \in BOOLEAN :
          speechTxt' = IF saved THEN Written(FailureMarker(errorMessage)) ELSE speechTxt
    /\ speechResult' = Result(<<"N","/","A">>)
    /\ pollPc' = "returned"
    /\ UNCHANGED <<attempts, awaitingStatus, statusRequests, jobStatus,
                   transcriptFetches, transcriptionResult, errorMessage>>

-----------------------------------------------------------------------------
\* The program run again over the directory an earlier run has left

\* How many runs over one directory are followed
MaxRuns == 2

\* Two recordings of one stem in one folder
PairTree ==
    [ root |-> << File(<<"a",".","m","p","3">>), File(<<"a",".","w","a","v">>) >>,
      a |-> << >>,
      a1 |-> << >>,
      b |-> << >> ]

\* The same, the extension of one in upper case
UpperPairTree ==
    [ root |-> << File(<<"a",".","M","P","3">>), File(<<"a",".","w","a","v">>) >>,
      a |-> << >>,
      a1 |-> << >>,
      b |-> << >> ]

\* One recording in a subfolder, next to a file that is no recording
SingleTree ==
    [ root |-> << Dir("b", <<"b">>), File(<<"n","o","t","e","s",".","m","d">>) >>,
      a |-> << >>,
      a1 |-> << >>,
      b |-> << File(<<"c",".","a","m","r">>) >> ]

\* The first runs: no transcript is there yet
AgainInputs ==
    {RunInput(tree, "transcribe", s, TRUE, <<>>) :
        tree \in {PairTree, SingleTree}, s \in Services}
    \cup {RunInput(tree, "both", "gemini", TRUE, <<>>) : tree \in {PairTree, UpperPairTree}}

AgainIdle ==
    /\ runNo = 1
    /\ earlier = <<>>

AgainStart ==
    /\ StartedFrom(AgainInputs)
    /\ runNo = 1
    /\ earlier = <<>>

\* main has returned or thrown and the program is started again, with the
\* default options of a run (transcribe and summary), the same service, and
\* the directory as the run before left it
RunAgain ==
    /\ runNo < MaxRuns
    /\ RunCompleted \/ RunFailed
    /\ runNo' = runNo + 1
    /\ earlier' = Append(earlier, calls)
    /\ mode' = "both"
    /\ tStack' = <<>>
    /\ tFinished' = {}
    /\ decisions' = <<>>
    /\ calls' = <<>>
    /\ tPc' = "idle"
    /\ stack' = <<>>
    /\ writes' = [f \in Folders |-> 0]
    /\ writeFailed' = {}
    /\ finished' = {}
    /\ failedAt' = ""
    /\ inFlight' = {}
    /\ walkPc' = "idle"
    /\ UNCHANGED <<listing, exists, files, service, openaiApiKey, content>>

LaterIdle == HourIdle /\ CallIdle /\ PollIdle /\ AgainIdle

-----------------------------------------------------------------------------
(* Specifications                                                          *)

\* The folder walk
Init == WalkInit /\ FnIdle /\ CsvIdle /\ DurIdle /\ FlatIdle /\ RunIdle /\ TreeIdle /\ LaterIdle

WalkOnly == UNCHANGED <<fnVars, csvVars, durVars, flatVars, runVars, treeVars, laterVars>>

Next ==
    \/ StartSummary /\ WalkOnly
    \/ EnterDirectory /\ WalkOnly
    \/ ProbeFile /\ WalkOnly
    \/ ProcessFile /\ WalkOnly
    \/ SkipItem /\ WalkOnly
    \/ FinishFolder /\ WalkOnly

Spec == Init /\ [][Next]_vars

\* The filename parsers and their factory
FilenameOnly == UNCHANGED <<csvVars, durVars, flatVars, walkVars, runVars, treeVars, laterVars>>

FilenameNext ==
    \/ (\E p \in ParserNames : AddParser(p)) /\ FilenameOnly
    \/ ParseFilenameMetadata /\ FilenameOnly
    \/ (\E p \in ParserNames : StrategyParse(p)) /\ FilenameOnly
    \/ IndexParse /\ FilenameOnly

FilenameInit == FnInit /\ CsvIdle /\ DurIdle /\ FlatIdle /\ WalkIdle /\ RunIdle /\ TreeIdle /\ LaterIdle

FilenameSpec == FilenameInit /\ [][FilenameNext]_vars

\* Writing a summary.csv and reading it back
CsvOnly == UNCHANGED <<fnVars, durVars, flatVars, walkVars, runVars, treeVars, laterVars>>

CsvNext ==
    \/ (\E row \in CsvRowInputs : PushRow(row)) /\ CsvOnly
    \/ GenerateCsvFile /\ CsvOnly
    \/ ReadCsvFile /\ CsvOnly

CsvInit == CsvIdle /\ FnIdle /\ DurIdle /\ FlatIdle /\ WalkIdle /\ RunIdle /\ TreeIdle /\ LaterIdle

CsvSpec == CsvInit /\ [][CsvNext]_vars

\* The duration codec
DurationOnly == UNCHANGED <<fnVars, csvVars, flatVars, walkVars, runVars, treeVars, laterVars>>

DurationNext ==
    \/ FormatDuration /\ DurationOnly
    \/ ParseDurationText /\ DurationOnly
    \/ ParseFormatted /\ DurationOnly

DurationInit == DurInit /\ FnIdle /\ CsvIdle /\ FlatIdle /\ WalkIdle /\ RunIdle /\ TreeIdle /\ LaterIdle

DurationSpec == DurationInit /\ [][DurationNext]_vars

\* Building and classifying one record
RecordInit ==
    /\ FlatInit
    /\ CsvIdle /\ DurIdle /\ WalkIdle /\ RunIdle /\ TreeIdle /\ LaterIdle
    /\ parsers = ConstructedParsers
    /\ registered = <<>>
    /\ filename \in ClassifyFilenames
    /\ strategy = "none"
    /\ consulted = <<>>
    /\ metadata = NoMetadata

RecordNext == BuildRecord /\ UNCHANGED <<csvVars, durVars, walkVars, runVars, treeVars, laterVars>>

RecordSpec == RecordInit /\ [][RecordNext]_vars


\* A run of main: the transcription walk, the summary walk, or both in turn
RunOnly == UNCHANGED <<fnVars, csvVars, durVars, flatVars, treeVars, laterVars>>

SummaryOnly == UNCHANGED <<fnVars, csvVars, durVars, flatVars, runVars, treeVars, laterVars>>

RunNext ==
    \/ StartTranscription /\ RunOnly
    \/ TEnterDirectory /\ RunOnly
    \/ TSkipExisting /\ RunOnly
    \/ TBeginTranscribe /\ RunOnly
    \/ TEndTranscribe /\ RunOnly
    \/ TSkipItem /\ RunOnly
    \/ TFinishFolder /\ RunOnly
    \/ ProcessSummary /\ SummaryOnly
    \/ EnterDirectory /\ SummaryOnly
    \/ ProbeFile /\ SummaryOnly
    \/ ProcessFile /\ SummaryOnly
    \/ SkipItem /\ SummaryOnly
    \/ FinishFolder /\ SummaryOnly

RunInit == RunStart /\ FnIdle /\ CsvIdle /\ DurIdle /\ FlatIdle /\ TreeIdle /\ LaterIdle

RunSpec == RunInit /\ [][RunNext]_vars


\* The tree-level aggregation over folder summaries already written
TreeOnly == UNCHANGED <<fnVars, csvVars, durVars, flatVars, runVars, laterVars>>

TreeNext == AggregateTree /\ TreeOnly

TreeInit == TreeStart /\ FnIdle /\ CsvIdle /\ DurIdle /\ FlatIdle /\ RunIdle /\ LaterIdle

TreeSpec == TreeInit /\ [][TreeNext]_vars

\* The summary walk and the tree aggregation, run twice
RerunOnly == UNCHANGED <<fnVars, csvVars, durVars, flatVars, runVars, laterVars>>

WalkAgain == UNCHANGED <<fnVars, csvVars, durVars, flatVars, runVars, treeVars, laterVars>>

ProbeAgain ==
    UNCHANGED <<fnVars, csvVars, durVars, flatVars, runVars, analyses, collected,
                overview, grouped, firstRun, runs, aggPc, laterVars>>

RerunNext ==
    \/ StartSummary /\ WalkAgain
    \/ EnterDirectory /\ WalkAgain
    \/ ProbeFile /\ WalkAgain
    \/ ProcessFile /\ Reported /\ ProbeAgain
    \/ SkipItem /\ WalkAgain
    \/ FinishFolder /\ WalkAgain
    \/ AggregateAfterWalk /\ RerunOnly
    \/ Rerun /\ RerunOnly

RerunInit == RerunStart /\ FnIdle /\ CsvIdle /\ DurIdle /\ FlatIdle /\ RunIdle /\ LaterIdle

RerunSpec == RerunInit /\ [][RerunNext]_vars

\* The hourly histogram, one row after the other
HourOnly ==
    UNCHANGED <<fnVars, csvVars, durVars, flatVars, walkVars, runVars, treeVars, callVars,
                pollVars, againVars>>

HourNext == (\E row \in HourRowInputs : AddToHistogram(row)) /\ HourOnly

HourInit ==
    HourIdle /\ FnIdle /\ CsvIdle /\ DurIdle /\ FlatIdle /\ WalkIdle /\ RunIdle /\ TreeIdle
        /\ CallIdle /\ PollIdle /\ AgainIdle

HourSpec == HourInit /\ [][HourNext]_vars

\* One provider call, statement by statement
CallOnly ==
    UNCHANGED <<fnVars, csvVars, durVars, flatVars, walkVars, runVars, treeVars, hourVars,
                pollVars, againVars>>

CallNext ==
    \/ ConvertAmrToWav /\ CallOnly
    \/ ReadAudioFile /\ CallOnly
    \/ CheckAudioDuration /\ CallOnly
    \/ BuildRequest /\ CallOnly
    \/ Recognize /\ CallOnly
    \/ CreateTranscription /\ CallOnly
    \/ SaveTranscription /\ CallOnly
    \/ CatchError /\ CallOnly
    \/ FinallyCleanUp /\ CallOnly

CallInit ==
    CallStart /\ FnIdle /\ CsvIdle /\ DurIdle /\ FlatIdle /\ WalkIdle /\ RunIdle /\ TreeIdle
        /\ HourIdle /\ PollIdle /\ AgainIdle

CallSpec == CallInit /\ [][CallNext]_vars

\* One call of transcribeFileSpeechmatics; every request sent is answered
PollOnly ==
    UNCHANGED <<fnVars, csvVars, durVars, flatVars, walkVars, runVars, treeVars, hourVars,
                callVars, againVars>>

PollNext ==
    \/ SubmitJob /\ PollOnly
    \/ RequestStatus /\ PollOnly
    \/ ReceiveStatus /\ PollOnly
    \/ FetchTranscript /\ PollOnly
    \/ TimeOut /\ PollOnly
    \/ SaveSpeechTranscript /\ PollOnly
    \/ CatchSpeechError /\ PollOnly

PollInit ==
    PollStart /\ FnIdle /\ CsvIdle /\ DurIdle /\ FlatIdle /\ WalkIdle /\ RunIdle /\ TreeIdle
        /\ HourIdle /\ CallIdle /\ AgainIdle

PollSpec == PollInit /\ [][PollNext]_vars /\ WF_vars(PollNext)


\* The program run over one directory, and run over it again
AgainOnly ==
    UNCHANGED <<fnVars, csvVars, durVars, flatVars, treeVars, hourVars, callVars, pollVars>>

AgainNext ==
    \/ StartTranscription /\ RunOnly
    \/ TEnterDirectory /\ RunOnly
    \/ TSkipExisting /\ RunOnly
    \/ TBeginTranscribe /\ RunOnly
    \/ TEndTranscribe /\ RunOnly
    \/ TSkipItem /\ RunOnly
    \/ TFinishFolder /\ RunOnly
    \/ ProcessSummary /\ SummaryOnly
    \/ EnterDirectory /\ SummaryOnly
    \/ ProbeFile /\ SummaryOnly
    \/ ProcessFile /\ SummaryOnly
    \/ SkipItem /\ SummaryOnly
    \/ FinishFolder /\ SummaryOnly
    \/ RunAgain /\ AgainOnly

AgainInit ==
    AgainStart /\ FnIdle /\ CsvIdle /\ DurIdle /\ FlatIdle /\ TreeIdle /\ HourIdle
        /\ CallIdle /\ PollIdle

AgainSpec == AgainInit /\ [][AgainNext]_vars
-----------------------------------------------------------------------------
(* Properties of the filename parsers (checked under FilenameSpec)         *)

\* The positions of the registered parsers that accept the filename
Accepting == {i \in 1..Len(parsers) : CanParse(parsers[i], filename)}

\* C1: parseFilenameMetadata returns the parse of the first parser, in
\* registration order (the constructor's parsers, then those of addParser in
\* call order), whose canParse accepts the filename, and asks no parser after
\* it; when no parser accepts it returns "N/A" for all three fields.
FactoryFirstMatch ==
    /\ parsers = ConstructedParsers \o registered
    /\ strategy = "factory" =>
          IF Accepting = {}
          THEN metadata = NoMetadata /\ consulted = parsers
          ELSE \E i \in Accepting :
                  /\ \A j \in Accepting : i <= j
                  /\ metadata = Parse(parsers[i], filename)
                  /\ consulted = SubSeq(parsers, 1, i)

\* C1 witness: the factory has parsed a filename that two registered parsers
\* accept, the winner being one that addParser added and not the last one.
FactoryFirstMatchWitness ==
    /\ strategy = "factory"
    /\ Cardinality(Accepting) >= 2
    /\ Len(consulted) > Len(ConstructedParsers)
    /\ Len(consulted) < Len(parsers)
    /\ metadata # NoMetadata

\* The factory has found no parser for the filename
FactoryNoMatchWitness ==
    strategy = "factory" /\ Accepting = {} /\ Len(registered) = MaxAdded

\* C2: for a filename with the tokens TP1<ms>, TP3<phone> and TP4<word>
\* followed directly by the extension, the token strategy returns the phone
\* without its leading '+', the call type <word> without the extension, and
\* the UTC rendering of the millisecond value.
TokenStrategyFields ==
    \A pre \in TokenPrefixes, s \in MsSamples, phone \in PhoneTokens,
       word \in CallTypeWords, ext \in Extensions :
        (strategy = "arex" /\ filename = TokenFilename(pre, s.ms, phone, word, ext))
            => metadata = [timestamp |-> s.utc,
                           phoneNumber |-> StripPlus(phone),
                           callType |-> word]

\* The token strategy has parsed the filename of C2 and returned the call
\* type with the extension.
TokenStrategyExtensionKept ==
    /\ filename = <<"r","e","c","o","r","d","i","n","g","-","T","P","1","1","7","5","5","6","5","9","1","4","8","2","8","4","T","P","2","T","P","3","7","5","6","1","0","7","4","5","2","3","T","P","4","o","u","t","g","o","i","n","g",".","a","m","r">>
    /\ strategy = "arex"
    /\ metadata = [timestamp |-> <<"2","0","2","5","-","0","8","-","2","0"," ","0","3",":","0","5",":","4","8">>,
                   phoneNumber |-> <<"7","5","6","1","0","7","4","5","2","3">>,
                   callType |-> <<"o","u","t","g","o","i","n","g",".","a","m","r">>]

\* What does hold of the token strategy, and of parseFilenameMetadata of
\* index.ts, on those filenames: the timestamp and the phone number are as
\* C2 says, and the call type runs on to the end of the name.
TokenStrategyKeepsExtension ==
    \A pre \in TokenPrefixes, s \in MsSamples, phone \in PhoneTokens,
       word \in CallTypeWords, ext \in Extensions :
        (strategy \in {"arex", "index"}
            /\ filename = TokenFilename(pre, s.ms, phone, word, ext))
            => metadata = [timestamp |-> s.utc,
                           phoneNumber |-> StripPlus(phone),
                           callType |-> word \o ext]

\* C3: a filename whose base name is <optional '+'><digits>-<YYMMDDHHMM> is
\* accepted by the pattern strategy, which returns the digits as the phone
\* number, "20YY-MM-DD HH:MM:00" as the timestamp and "N/A" as the call type.
CompactPatternParsed ==
    /\ \A plus \in PlusOrNot, phone \in CompactPhones, stamp \in CompactStamps,
          ext \in Extensions \cup {<<>>} :
          filename = CompactFilename(plus, phone, stamp, ext) =>
             /\ SimpleCanParse(filename)
             /\ strategy \in {"simple", "factory"} =>
                   metadata = [timestamp |-> <<"2","0">> \o SubSeq(stamp, 1, 2) \o <<"-">>
                                               \o SubSeq(stamp, 3, 4) \o <<"-">>
                                               \o SubSeq(stamp, 5, 6) \o <<" ">>
                                               \o SubSeq(stamp, 7, 8) \o <<":">>
                                               \o SubSeq(stamp, 9, 10) \o <<":","0","0">>,
                               phoneNumber |-> phone,
                               callType |-> NA]
    /\ (filename = <<"+","9","1","8","3","2","8","6","3","3","4","3","3","-","2","5","1","1","0","7","1","5","0","7",".","a","m","r">> /\ strategy \in {"simple", "factory"})
          => /\ metadata.phoneNumber = <<"9","1","8","3","2","8","6","3","3","4","3","3">>
             /\ metadata.timestamp = <<"2","0","2","5","-","1","1","-","0","7"," ","1","5",":","0","7",":","0","0">>

\* C3 witness: the pattern strategy has parsed "+918328633433-2511071507.amr".
CompactPatternWitness ==
    /\ filename = <<"+","9","1","8","3","2","8","6","3","3","4","3","3","-","2","5","1","1","0","7","1","5","0","7",".","a","m","r">>
    /\ strategy = "simple"
    /\ metadata.timestamp = <<"2","0","2","5","-","1","1","-","0","7"," ","1","5",":","0","7",":","0","0">>

\* C4: the resolver as constructed recognises the prefix form: a filename
\* "Call recording <phone>_<YYMMDD>_<HHMMSS>" resolves to the phone without
\* its leading '+', the timestamp "20YY-MM-DD HH:MM:SS" and call type "N/A".
PrefixFormResolved ==
    \A phone \in PrefixPhones, date \in PrefixDates, time \in PrefixTimes,
       ext \in Extensions :
        (/\ strategy = "factory"
         /\ registered = <<>>
         /\ filename = PrefixFilename(phone, date, time, ext))
            => metadata = [timestamp |-> <<"2","0">> \o SubSeq(date, 1, 2) \o <<"-">>
                                           \o SubSeq(date, 3, 4) \o <<"-">>
                                           \o SubSeq(date, 5, 6) \o <<" ">>
                                           \o SubSeq(time, 1, 2) \o <<":">>
                                           \o SubSeq(time, 3, 4) \o <<":">>
                                           \o SubSeq(time, 5, 6),
                           phoneNumber |-> StripPlus(phone),
                           callType |-> NA]

\* The factory as constructed has resolved a prefix-form filename to "N/A"
\* three times, having asked the token and the pattern strategy only.
PrefixFormUnresolved ==
    /\ filename = <<"C","a","l","l"," ","r","e","c","o","r","d","i","n","g"," ","+","9","1","9","8","7","6","5","4","3","2","1","0","_","2","5","0","8","2","0","_","0","3","0","5","4","8",".","a","m","r">>
    /\ strategy = "factory"
    /\ registered = <<>>
    /\ consulted = <<"arex", "simple">>
    /\ metadata = NoMetadata

\* What does hold for the prefix form: the prefix strategy itself, and the
\* factory once addParser has registered it, return what C4 says; the factory
\* as constructed finds no parser and returns "N/A" three times.
PrefixStrategyAlone ==
    \A phone \in PrefixPhones, date \in PrefixDates, time \in PrefixTimes,
       ext \in Extensions :
        filename = PrefixFilename(phone, date, time, ext) =>
           /\ (strategy = "call-recording"
                 \/ (strategy = "factory" /\ "call-recording" \in Range(registered)))
                 => metadata = [timestamp |-> <<"2","0">> \o SubSeq(date, 1, 2) \o <<"-">>
                                                \o SubSeq(date, 3, 4) \o <<"-">>
                                                \o SubSeq(date, 5, 6) \o <<" ">>
                                                \o SubSeq(time, 1, 2) \o <<":">>
                                                \o SubSeq(time, 3, 4) \o <<":">>
                                                \o SubSeq(time, 5, 6),
                                phoneNumber |-> StripPlus(phone),
                                callType |-> NA]
           /\ (strategy = "factory" /\ "call-recording" \notin Range(registered))
                 => metadata = NoMetadata

-----------------------------------------------------------------------------
(* Properties of the record building (checked under RecordSpec)            *)

\* Some tag of the analysis record is "deactivation", ignoring case
HasDeactivationTag ==
    \E i \in 1..Len(callTagsIn) : ToLower(Trim(callTagsIn[i])) = <<"d","e","a","c","t","i","v","a","t","i","o","n">>

CallTypeHas(word) == Includes(ToLower(metadata.callType), word)

BucketCount == Cardinality({b \in DOMAIN flat.buckets : flat.buckets[b]})

\* C5: a record goes to at most one bucket: deactivation when a tag equals
\* "deactivation" ignoring case, else outgoing when its call type contains
\* "outgoing" ignoring case, else incoming when it contains "incoming" or
\* "incomming", else none; TP4Outgoing and TP4outgoing both give outgoing.
ClassificationPriority ==
    flat.built =>
       /\ BucketCount <= 1
       /\ flat.buckets["deactivation"] <=> HasDeactivationTag
       /\ flat.buckets["outgoing"] <=> (~HasDeactivationTag /\ CallTypeHas(<<"o","u","t","g","o","i","n","g">>))
       /\ flat.buckets["incoming"] <=>
             /\ ~HasDeactivationTag
             /\ ~CallTypeHas(<<"o","u","t","g","o","i","n","g">>)
             /\ CallTypeHas(<<"i","n","c","o","m","i","n","g">>) \/ CallTypeHas(<<"i","n","c","o","m","m","i","n","g">>)
       /\ (/\ filename \in
                { <<"r","e","c","o","r","d","i","n","g","-","T","P","1","1","7","5","5","6","5","9","1","4","8","2","8","4","T","P","2","T","P","3","7","5","6","1","0","7","4","5","2","3","T","P","4","O","u","t","g","o","i","n","g",".","a","m","r">>,
                  <<"r","e","c","o","r","d","i","n","g","-","T","P","1","1","7","5","5","6","5","9","1","4","8","2","8","4","T","P","2","T","P","3","7","5","6","1","0","7","4","5","2","3","T","P","4","o","u","t","g","o","i","n","g",".","a","m","r">> }
           /\ ~HasDeactivationTag)
             => flat.buckets["outgoing"]

\* C5 witness: the TP4Outgoing filename has been classified outgoing for a
\* record that carries tags.
ClassificationWitness ==
    /\ flat.built
    /\ filename = <<"r","e","c","o","r","d","i","n","g","-","T","P","1","1","7","5","5","6","5","9","1","4","8","2","8","4","T","P","2","T","P","3","7","5","6","1","0","7","4","5","2","3","T","P","4","O","u","t","g","o","i","n","g",".","a","m","r">>
    /\ Len(callTagsIn) > 0
    /\ flat.buckets["outgoing"]

\* The first position at which the tag name n occurs in call_tags, ignoring
\* case and surrounding white space
FirstSeen(n) ==
    CHOOSE i \in 1..Len(callTagsIn) :
        /\ ToLower(Trim(callTagsIn[i])) = ToLower(n)
        /\ \A j \in 1..(i - 1) : ToLower(Trim(callTagsIn[j])) # ToLower(n)

\* C6: the flattened tag names are the trimmed, non-empty names of call_tags
\* without case-insensitive repeats, each in its first-seen casing and in the
\* original order; callTagsCount is their number and callTags their " | "
\* join; [Intro, intro, Deactivation] gives 2 and the deactivation bucket.
TagsFlattened ==
    flat.built =>
       /\ \A k \in 1..Len(flat.names) :
             /\ flat.names[k] # <<>>
             /\ \E i \in 1..Len(callTagsIn) :
                   ToLower(Trim(callTagsIn[i])) = ToLower(flat.names[k])
             /\ flat.names[k] = Trim(callTagsIn[FirstSeen(flat.names[k])])
       /\ \A k, l \in 1..Len(flat.names) :
             k < l => FirstSeen(flat.names[k]) < FirstSeen(flat.names[l])
       /\ \A i \in 1..Len(callTagsIn) :
             Trim(callTagsIn[i]) # <<>> =>
                \E k \in 1..Len(flat.names) :
                   ToLower(flat.names[k]) = ToLower(Trim(callTagsIn[i]))
       /\ flat.callTagsCount = Len(flat.names)
       /\ flat.callTags = Join(flat.names, <<" ","|"," ">>)
       /\ callTagsIn = << <<"I","n","t","r","o">>, <<"i","n","t","r","o">>, <<"D","e","a","c","t","i","v","a","t","i","o","n">> >> =>
             /\ flat.callTagsCount = 2
             /\ flat.callTags = <<"I","n","t","r","o"," ","|"," ","D","e","a","c","t","i","v","a","t","i","o","n">>
             /\ flat.buckets["deactivation"]

\* C6 witness: [Intro, intro, Deactivation] has been flattened.
TagsFlattenedWitness ==
    /\ flat.built
    /\ callTagsIn = << <<"I","n","t","r","o">>, <<"i","n","t","r","o">>, <<"D","e","a","c","t","i","v","a","t","i","o","n">> >>
    /\ flat.callTagsCount = 2

-----------------------------------------------------------------------------
(* Properties of the CSV writer and reader (checked under CsvSpec)         *)

\* One line of fields, each escaped as section 4.1 says
EscapedLine(values) ==
    Join([i \in 1..Len(values) |-> Escape(values[i])], <<",">>) \o <<"\n">>

\* The unquoted values of one data row
PlainValues(row) ==
    << row.filename, row.duration,
       IF row.hasTranscription THEN <<"Y","e","s">> ELSE <<"N","o">>,
       row.timestamp, row.phoneNumber, row.callType >>

RECURSIVE EscapedRows(_)
EscapedRows(rows) ==
    IF rows = <<>> THEN <<>>
    ELSE EscapedLine(PlainValues(Head(rows))) \o EscapedRows(Tail(rows))

\* C7: every field of a summary.csv, of the header as of the data rows, is
\* wrapped in double quotes, and every double quote inside a value is written
\* as two double quotes.
CsvFieldsQuotedAndEscaped ==
    csvPc # "collect" => csvContent = EscapedLine(CsvHeaders) \o EscapedRows(csvData)

\* A row whose filename holds a double quote has been written, the quote single.
CsvQuoteLeftSingle ==
    /\ csvPc = "written"
    /\ Len(csvData) = 1
    /\ csvData[1].filename = <<"a","\"","b",".","m","p","3">>
    /\ StartsWith(csvContent,
                  <<"F","i","l","e","n","a","m","e",",","D","u","r","a","t","i","o","n",",","H","a","s"," ","T","r","a","n","s","c","r","i","p","t","i","o","n",",","T","i","m","e","s","t","a","m","p",",","P","h","o","n","e"," ","N","u","m","b","e","r",",","C","a","l","l"," ","T","y","p","e","\n","\"","a","\"","b",".","m","p","3","\"",",">>)

\* What generateCsvFile does write: the header bare, each data value between
\* two double quotes with its own double quotes left single.
CsvFieldsAsWritten ==
    csvPc # "collect" =>
       /\ StartsWith(csvContent, Join(CsvHeaders, <<",">>) \o <<"\n">>)
       /\ \A i \in 1..Len(csvData) :
             Includes(csvContent, <<"\n","\"">> \o csvData[i].filename \o <<"\"",",","\"">>)

\* C8: serialising a row and parsing the text gives back the first field
\* exactly, also when it holds commas, double quotes or newlines.
CsvRoundTrip ==
    csvPc = "parsed" =>
       /\ Len(csvParsed.rows) = Len(csvData)
       /\ \A i \in 1..Len(csvData) : csvParsed.rows[i][1] = csvData[i].filename

\* A row whose filename holds a double quote has been written and read back,
\* and the first field read is not the filename.
CsvRoundTripLost ==
    /\ csvPc = "parsed"
    /\ Len(csvData) = 1
    /\ csvData[1].filename = <<"a","\"","b",".","m","p","3">>
    /\ Len(csvParsed.rows) = 1
    /\ csvParsed.rows[1][1] # csvData[1].filename

\* What does hold: rows whose values hold no double quote are read back
\* exactly, commas and newlines included.
CsvRoundTripWithoutQuotes ==
    (csvPc = "parsed" /\ \A i \in 1..Len(csvData) : "\"" \notin Range(csvData[i].filename))
       => /\ csvParsed.headers = CsvHeaders
          /\ csvParsed.rows = [i \in 1..Len(csvData) |-> PlainValues(csvData[i])]

\* The escape and the parser of section 4.1 do round-trip every collected row.
EscapeRoundTrip ==
    csvPc # "collect" =>
       ParseCsv(EscapedLine(CsvHeaders) \o EscapedRows(csvData)).rows
          = [i \in 1..Len(csvData) |-> PlainValues(csvData[i])]

-----------------------------------------------------------------------------
(* Properties of the duration codec (checked under DurationSpec)           *)

\* C9: hmsToSeconds(secondsToHms(d)) = d for every d >= 0, and hmsToSeconds
\* gives H*3600+MM*60+SS for "H:MM:SS", MM*60+SS for "MM:SS", the number for
\* a bare integer, and counts an unparsable part as 0.
DurationRoundTrip ==
    /\ durPc = "roundtrip" => durResult = durSeconds
    /\ durPc = "parsed" =>
          \E t \in DurationTexts : t.text = durText /\ durResult = t.seconds

\* C9 witness: a duration of an hour or more has been formatted and parsed back.
DurationRoundTripWitness ==
    durPc = "roundtrip" /\ durSeconds >= 3600 /\ durResult = durSeconds

-----------------------------------------------------------------------------
(* Properties of the folder walk (checked under Spec)                      *)

\* A regular file whose name ends, ignoring case, in a supported extension
\* after at least one other character
IsAudioEntry(e) ==
    /\ e.kind = "file"
    /\ \E ext \in SupportedExtensions :
          /\ Len(e.name) > Len(ext)
          /\ ToLower(From(e.name, Len(e.name) - Len(ext) + 1)) = ext

\* The names of the supported files directly in folder f, in listing order
AudioNames(f) ==
    LET idx == {i \in 1..Len(listing[f]) : IsAudioEntry(listing[f][i])}
    IN [k \in 1..Cardinality(idx) |->
           listing[f][CHOOSE i \in idx : Cardinality({j \in idx : j <= i}) = k].name]

\* The summary.csv of f holds the header and one row per supported file of f,
\* in listing order
HoldsRowsOf(f) ==
    LET lines == Split(files[f], "\n")
    IN /\ Len(lines) = Len(AudioNames(f)) + 2
       /\ lines[1] = Join(CsvHeaders, <<",">>)
       /\ lines[Len(lines)] = <<>>
       /\ \A k \in 1..Len(AudioNames(f)) :
             StartsWith(lines[k + 1], Quoted(AudioNames(f)[k]) \o <<",">>)

\* The summary.csv of f is as it was before the walk
Untouched(f) ==
    files[f] = IF HasFile(listing[f], SummaryCsvName) THEN StaleCsv ELSE <<>>

-----------------------------------------------------------------------------
(* Properties of a failing directory listing (checked under Spec)          *)

\* The folders that are entries of folder f
SubFolders(f) ==
    {listing[f][i].folder : i \in {j \in 1..Len(listing[f]) : listing[f][j].kind = "dir"}}

\* f and every folder below it
RECURSIVE SubTree(_)
SubTree(f) == {f} \cup UNION {SubTree(g) : g \in SubFolders(f)}

\* C17: a failure to list a directory is fatal to its subtree only: once the
\* walk has stopped, every folder outside the subtree of the directory whose
\* listing failed has been processed, and its summary.csv has been written
\* when it holds a supported file and the write did not fail.
ListingFailureContained ==
    (walkPc = "failed" /\ failedAt # "") =>
        \A f \in Folders \ SubTree(failedAt) :
            /\ f \in finished
            /\ (AudioNames(f) # <<>> /\ f \notin writeFailed) => writes[f] = 1

\* The listing of folder a has failed: the walk has stopped, folder b, which
\* holds a supported file and comes after a in the listing of root, has not
\* been processed, and the summary.csv of root has not been written though
\* root holds supported files.
ListingFailureStopsWalk ==
    /\ walkPc = "failed"
    /\ failedAt = "a"
    /\ stack = <<>>
    /\ AudioNames("b") # <<>>
    /\ "b" \notin finished
    /\ AudioNames("root") # <<>>
    /\ "root" \notin finished
    /\ writes["root"] = 0

\* What does hold: a failed listing ends the whole walk at once; no folder
\* that was being walked is finished afterwards and nothing more is written.
ListingFailureIsFatal ==
    walkPc = "failed" =>
        /\ stack = <<>>
        /\ failedAt \in Folders
        /\ failedAt \notin finished
        /\ "root" \notin finished
        /\ writes["root"] = 0

-----------------------------------------------------------------------------
(* Properties of a run of main (checked under RunSpec)                     *)

\* The names of the supported files among the first n of the entries
AudioPrefix(items, n) ==
    LET idx == {i \in 1..n : IsAudioEntry(items[i])}
    IN [k \in 1..Cardinality(idx) |->
           items[CHOOSE i \in idx : Cardinality({j \in idx : j <= i}) = k].name]

\* The names of the files of folder f a decision was taken for, in order
DecidedNames(f) ==
    LET idx == {i \in 1..Len(decisions) : decisions[i].folder = f}
    IN [k \in 1..Cardinality(idx) |->
           decisions[CHOOSE i \in idx : Cardinality({j \in idx : j <= i}) = k].name]

\* The names of the files a call has a row for or awaits the duration of
RowNames(frame) ==
    [k \in 1..Len(frame.csvData) |-> frame.csvData[k].filename]
        \o (IF frame.awaiting = NoItem THEN <<>> ELSE <<frame.awaiting.name>>)

\* C11: a directory entry produces a summary row and, in the transcription
\* walk, a skip-or-transcribe decision if and only if it is a regular file
\* whose extension, compared ignoring case, is a supported one: the rows of
\* every running summary call and the decisions of every running
\* transcription call are those of the supported files among the entries the
\* call has passed, a written summary.csv holds one row per supported file,
\* and every provider call is for a supported file.
RowsAndDecisionsIffAudio ==
    /\ \A k \in 1..Len(stack) :
          RowNames(stack[k]) = AudioPrefix(listing[stack[k].folder], stack[k].idx - 1)
    /\ \A k \in 1..Len(tStack) :
          DecidedNames(tStack[k].folder) = AudioPrefix(tStack[k].items, tStack[k].idx - 1)
    /\ \A f \in tFinished : DecidedNames(f) = AudioNames(f)
    /\ \A f \in Folders \ (tFinished \cup {tStack[k].folder : k \in 1..Len(tStack)}) :
          tPc # "failed" => DecidedNames(f) = <<>>
    /\ \A i \in 1..Len(decisions) :
          \E j \in 1..Len(listing[decisions[i].folder]) :
              /\ listing[decisions[i].folder][j].name = decisions[i].name
              /\ IsAudioEntry(listing[decisions[i].folder][j])
    /\ \A f \in finished : writes[f] > 0 => HoldsRowsOf(f)
    /\ \A i \in 1..Len(calls) :
          /\ IsAudioEntry(File(calls[i].name))
          /\ \E j \in 1..Len(decisions) :
                /\ decisions[j].folder = calls[i].folder
                /\ decisions[j].name = calls[i].name
                /\ decisions[j].decision = "transcribe"
    /\ \A w \in inFlight : IsAudioEntry(File(w[3]))

\* C11 witness: both walks are done on a tree with an upper-case extension,
\* transcripts, an analysis file, a summary.csv and a directory entry that is
\* not a regular file; only the four supported files were decided on.
RowsAndDecisionsWitness ==
    /\ mode = "both"
    /\ RunCompleted
    /\ HasFile(listing["a1"], <<"z","_","a","n","a","l","y","s","i","s",".","j","s","o","n">>)
    /\ Len(decisions) = 4
    /\ DecidedNames("root") = << <<"C","A","L","L",".","M","P","3">> >>
    /\ DecidedNames("b") = <<>>
    /\ writes["root"] = 1
    /\ writes["a"] = 1
    /\ writes["b"] = 0

-----------------------------------------------------------------------------

\* A name with its extension removed, followed by .txt
SidecarName(name) == BaseName(name, ExtName(name)) \o <<".","t","x","t">>

\* Every row a running summary call holds or is about to push
FlaggedRows ==
    UNION {{[folder |-> stack[k].folder, name |-> stack[k].csvData[i].filename,
             flag |-> stack[k].csvData[i].hasTranscription] :
                i \in 1..Len(stack[k].csvData)}
           \cup (IF stack[k].awaiting = NoItem THEN {}
                 ELSE {[folder |-> stack[k].folder, name |-> stack[k].awaiting.name,
                        flag |-> stack[k].awaiting.hasTranscription]}) :
           k \in 1..Len(stack)}

\* C12 as stated: the Has Transcription flag of a row is Yes exactly when the
\* file's transcript sidecar, <name without extension>.txt, exists.
FlagIffSidecarExists ==
    \A r \in FlaggedRows : r.flag <=> <<r.folder, SidecarName(r.name)>> \in exists

\* C12 for the path the code probes: the flag is Yes exactly when that path
\* exists, whatever it holds
FlagIffProbedPathExists ==
    \A r \in FlaggedRows : r.flag <=> <<r.folder, TxtName(r.name)>> \in exists

\* C12 witness of the failure: CALL.MP3 has the row flag No although CALL.txt
\* exists beside it.
FlagNoDespiteSidecar ==
    \E r \in FlaggedRows :
        /\ r.name = <<"C","A","L","L",".","M","P","3">>
        /\ ~r.flag
        /\ <<r.folder, <<"C","A","L","L",".","t","x","t">>>> \in exists

\* A row is flagged Yes for a transcript of zero bytes
FlagYesForEmptySidecar ==
    \E r \in FlaggedRows :
        /\ r.flag
        /\ content[<<r.folder, TxtName(r.name)>>] = <<>>

-----------------------------------------------------------------------------

\* path.basename(p, path.extname(p)) + '_analysis.json'
AnalysisJsonName(p) == BaseName(p, ExtName(p)) \o <<"_","a","n","a","l","y","s","i","s",".","j","s","o","n">>

\* C13 as stated: for every supported audio file the transcript sidecar that
\* is probed and written is <name with its extension removed>.txt, and the
\* analysis sidecar is <name with its extension removed>_analysis.json.
SidecarsNamedByStem ==
    /\ \A i \in 1..Len(decisions) :
          /\ decisions[i].txt = SidecarName(decisions[i].name)
          /\ AnalysisJsonName(decisions[i].txt)
                = BaseName(decisions[i].name, ExtName(decisions[i].name))
                     \o <<"_","a","n","a","l","y","s","i","s",".","j","s","o","n">>
    /\ \A i \in 1..Len(calls) : calls[i].txt = SidecarName(calls[i].name)

\* C13 for names whose extension is written in lower case
SidecarsNamedByStemLowerCase ==
    /\ \A i \in 1..Len(decisions) :
          LET name == decisions[i].name
          IN /\ AnalysisJsonName(name)
                   = BaseName(name, ExtName(name)) \o <<"_","a","n","a","l","y","s","i","s",".","j","s","o","n">>
             /\ ExtName(name) = ToLower(ExtName(name)) =>
                   /\ decisions[i].txt = SidecarName(name)
                   /\ AnalysisJsonName(decisions[i].txt)
                         = BaseName(name, ExtName(name)) \o <<"_","a","n","a","l","y","s","i","s",".","j","s","o","n">>

\* C13 witness of the failure: the transcript written for CALL.MP3 is
\* CALL.MP3.txt.
SidecarKeepsUpperCaseExtension ==
    \E i \in 1..Len(calls) :
        /\ calls[i].name = <<"C","A","L","L",".","M","P","3">>
        /\ calls[i].txt = <<"C","A","L","L",".","M","P","3",".","t","x","t">>
        /\ calls[i].outcome = "text"
        /\ <<calls[i].folder, <<"C","A","L","L",".","M","P","3",".","t","x","t">>>> \in exists
        /\ AnalysisJsonName(calls[i].txt) = <<"C","A","L","L",".","M","P","3","_","a","n","a","l","y","s","i","s",".","j","s","o","n">>

-----------------------------------------------------------------------------

\* The step takes a decision
Decides == Len(decisions') = Len(decisions) + 1
Decided == decisions'[Len(decisions')]

\* C14 as stated: for every supported audio file the provider is invoked
\* exactly when the file's .txt sidecar, <name without extension>.txt, does
\* not exist at the moment the file is visited; a skipped file gets no
\* provider call and its transcript is left unchanged.
ProviderIffNoSidecar ==
    [][Decides =>
         /\ Decided.decision = "transcribe"
               <=> <<Decided.folder, SidecarName(Decided.name)>> \notin exists
         /\ Decided.decision = "skip" =>
               /\ content' = content
               /\ calls' = calls
               /\ inFlight' = inFlight]_vars

\* C14 for the path the code probes: the provider is invoked exactly when
\* that path does not exist when the file is visited
ProviderIffNoProbedPath ==
    [][Decides =>
         /\ Decided.decision = "transcribe"
               <=> <<Decided.folder, Decided.txt>> \notin exists
         /\ Decided.decision = "transcribe"
               <=> <<"provider", Decided.folder, Decided.name>> \in inFlight'
         /\ Decided.decision = "skip" =>
               /\ content' = content
               /\ exists' = exists
               /\ calls' = calls
               /\ inFlight' = inFlight]_vars

\* C14 witness of the failure: the provider was called for CALL.MP3 although
\* CALL.txt was there from the start.
ProviderDespiteSidecar ==
    \E i \in 1..Len(calls) :
        /\ calls[i].name = <<"C","A","L","L",".","M","P","3">>
        /\ <<calls[i].folder, <<"C","A","L","L",".","t","x","t">>>> \in DOMAIN content
        /\ content[<<calls[i].folder, <<"C","A","L","L",".","t","x","t">>>>] = NoSpeechText

-----------------------------------------------------------------------------

\* The file a call awaits, as it is in flight
Awaited(kind, frame) ==
    IF frame.awaiting = NoItem THEN {}
    ELSE {<<kind, frame.folder, frame.awaiting.name>>}

\* The directories among the entries a call has passed are done with, but
\* for the one the next inner call is in
ChildrenDone(frames, items, done) ==
    \A k \in 1..Len(frames) :
        \A i \in 1..(frames[k].idx - 1) :
            items[k][i].kind = "dir" =>
                \/ items[k][i].folder \in done
                \/ /\ k < Len(frames)
                   /\ i = frames[k].idx - 1
                   /\ frames[k + 1].folder = items[k][i].folder
                   /\ frames[k].awaiting = NoItem

\* C15: traversal is strictly sequential: at most one provider call or
\* duration probe is in flight, it is the one the innermost call awaits, the
\* summary walk starts only when the transcription walk has returned, and a
\* subdirectory is done with (its summary.csv written) before its parent
\* looks at its next entry or writes its own summary.csv.
StrictlySequential ==
    /\ Cardinality(inFlight) <= 1
    /\ inFlight = (IF stack = <<>> THEN {} ELSE Awaited("probe", Top))
                     \cup (IF tStack = <<>> THEN {} ELSE Awaited("provider", TTop))
    /\ \A k \in 1..(Len(stack) - 1) : stack[k].awaiting = NoItem
    /\ \A k \in 1..(Len(tStack) - 1) : tStack[k].awaiting = NoItem
    /\ tStack # <<>> => stack = <<>> /\ walkPc = "idle"
    /\ ChildrenDone(stack, [k \in 1..Len(stack) |-> listing[stack[k].folder]], finished)
    /\ ChildrenDone(tStack, [k \in 1..Len(tStack) |-> tStack[k].items], tFinished)
    /\ \A f \in finished : SubFolders(f) \subseteq finished
    /\ \A f \in tFinished : SubFolders(f) \subseteq tFinished
    /\ \A f \in Folders : writes[f] > 0 => f \in finished
    /\ \A w \in inFlight : w[1] = "probe" => w[2] \notin finished
    /\ \A w \in inFlight : w[1] = "provider" => w[2] \notin tFinished

\* C15 witness: the duration of y.wav in a is being probed inside the call
\* for root; the subdirectory a1 met before it is done with and its
\* summary.csv written, and neither a nor root has written its own.
StrictlySequentialWitness ==
    /\ Len(stack) = 2
    /\ inFlight = {<<"probe", "a", <<"y",".","w","a","v">>>>}
    /\ "a1" \in finished
    /\ writes["a1"] = 1
    /\ writes["a"] = 0
    /\ writes["root"] = 0
    /\ tPc = "done"

-----------------------------------------------------------------------------

\* The summary.csv of f has a row for name whose duration is N/A
HasRowWithoutDuration(f, name) ==
    \E k \in 1..Len(Split(files[f], "\n")) :
        StartsWith(Split(files[f], "\n")[k], Quoted(name) \o <<",">> \o Quoted(NA))

\* C16: per-file failures are local: a failing provider call, conversion,
\* duration probe or sidecar write never ends the run (only a rejected
\* service or a failing directory listing does), so that a run in which no
\* listing fails visits every folder, takes a decision for every supported
\* file, gives every supported file its row (duration N/A when unknown) in
\* each summary.csv that could be written, and completes.
PerFileFailuresLocal ==
    /\ RunFailed <=> failedAt # ""
    /\ \A i \in 1..Len(calls) : calls[i].outcome \in Outcomes
    /\ (~RunCompleted /\ ~RunFailed) => ENABLED RunNext
    /\ RunCompleted =>
          /\ Transcribes(mode) =>
                /\ tFinished = Folders
                /\ \A f \in Folders : DecidedNames(f) = AudioNames(f)
          /\ Summarises(mode) =>
                /\ finished = Folders
                /\ \A f \in Folders :
                      (AudioNames(f) # <<>> /\ f \notin writeFailed) =>
                          writes[f] = 1 /\ HoldsRowsOf(f)

\* C16 witness: both walks are done although the provider failed for every
\* file it was called for, once without leaving even a marker, and the
\* duration probe of CALL.MP3 failed: CALL.MP3 has its row, with N/A.
PerFileFailuresWitness ==
    /\ mode = "both"
    /\ RunCompleted
    /\ Len(calls) = 3
    /\ \A i \in 1..Len(calls) : calls[i].outcome \in {"failed", "unwritable"}
    /\ \E i \in 1..Len(calls) : calls[i].outcome = "unwritable"
    /\ writes["root"] = 1
    /\ HasRowWithoutDuration("root", <<"C","A","L","L",".","M","P","3">>)

-----------------------------------------------------------------------------
(* Properties of the tree-level aggregation (checked under TreeSpec)       *)

\* The subdirectories of the base in the order a depth-first walk meets them
TreeOrder == <<"a", "a1", "b">>

\* The i-th of the elements of s whose index is in idx
Picked(s, idx) ==
    [k \in 1..Cardinality(idx) |->
        s[CHOOSE i \in idx : Cardinality({j \in idx : j <= i}) = k]]

\* The indices of the lines of a summary.csv that are data: not the first
\* line, and not made of white space only
KeptIndices(text) ==
    {i \in 2..Len(Lines(text)) :
        \E j \in 1..Len(Lines(text)[i]) : Lines(text)[i][j] \notin SpaceSet}

Kept(text) == Picked(Lines(text), KeptIndices(text))

\* How many data lines the collected files before the k-th hold
Offset(k) ==
    Cardinality(UNION {{<<i, j>> : j \in KeptIndices(files[collected[i]])} :
                          i \in 1..(k - 1)})

\* C20: the base-level summary.csv written by the tree aggregation is the
\* header row of the first collected summary.csv followed by every
\* non-header, non-blank line of every collected subfolder summary.csv, each
\* exactly once, verbatim and in collection order; the collected folders are
\* the subdirectories holding a summary.csv, in walk order, never the base.
MergedFromSubfolders ==
    (aggPc = "done") =>
        /\ collected = Picked(TreeOrder, {i \in 1..Len(TreeOrder) : files[TreeOrder[i]] # <<>>})
        /\ \A k \in 1..Len(collected) : collected[k] # "root"
        /\ collected # <<>> =>
              LET merged == Lines(files["root"])
              IN /\ Len(merged) = 2 + Offset(Len(collected) + 1)
                 /\ merged[Len(merged)] = <<>>
                 /\ merged[1] = Lines(files[collected[1]])[1]
                 /\ \A k \in 1..Len(collected) :
                       \A j \in 1..Len(Kept(files[collected[k]])) :
                           merged[1 + Offset(k) + j] = Kept(files[collected[k]])[j]

\* C20 witness: three folder summaries were merged: one with blank lines
\* between its two rows and a header of its own, one with three rows and one
\* with a header only; the base file holds the first header and five rows.
MergedWitness ==
    /\ aggPc = "done"
    /\ collected = TreeOrder
    /\ HeaderLine(files["a"]) = <<"p","h","o","n","e"," ","n","u","m","b","e","r",",","D","U","R","A","T","I","O","N",",","C","a","l","l"," ","T","y","p","e">>
    /\ Len(Lines(files["a"])) = 7
    /\ Len(Kept(files["a1"])) = 3
    /\ Kept(files["b"]) = <<>>
    /\ Len(Lines(files["root"])) = 7
    /\ Lines(files["root"])[1] = <<"p","h","o","n","e"," ","n","u","m","b","e","r",",","D","U","R","A","T","I","O","N",",","C","a","l","l"," ","T","y","p","e">>
    /\ Lines(files["root"])[3] = <<"7","8","9",",","6","1",",","m","i","s","s","e","d">>

-----------------------------------------------------------------------------

\* Every row of every collected summary.csv, as the statistics read it
AllStatRows ==
    UNION {{[at |-> <<k, j>>, row |-> StatRows(files[collected[k]])[j]] :
               j \in 1..Len(StatRows(files[collected[k]]))} :
           k \in 1..Len(collected)}

PerFolder == SubSeq(overview, 1, Len(overview) - 1)

Overall == overview[Len(overview)]

\* The summaries of folders A and B of the example
ExampleA ==
    GenerateCsv(<< StatRow(<<"0","0",":","0","0",":","3","0">>, <<"1","2","3">>, <<"o","u","t","g","o","i","n","g">>),
                   StatRow(<<"0","0",":","0","1",":","3","0">>, <<"1","2","3">>, <<"o","u","t","g","o","i","n","g">>) >>)

ExampleB == GenerateCsv(<< StatRow(<<"0","0",":","0","2",":","0","0">>, <<"4","5","6">>, <<"i","n","c","o","m","i","n","g">>) >>)

\* C19: the OVERALL overview row is the aggregation over all collected
\* folders: total calls, calls over one minute (strictly more than 60
\* seconds), incoming, outgoing and talk time are the sums of the per-folder
\* values, unique phones and unique outgoing-long phones the sizes of the
\* unions of the phone sets; for the folders A and B of the example OVERALL
\* is 3, 2, 2, outgoing 2, incoming 1, 1 and "00:04:00".
OverallIsAggregate ==
    (aggPc = "done" /\ collected # <<>>) =>
        /\ Len(overview) = Len(collected) + 1
        /\ Overall.folder = "OVERALL"
        /\ \A k \in 1..Len(collected) : overview[k].folder = collected[k]
        /\ Overall.totalCalls
              = SumOf([k \in 1..Len(PerFolder) |-> PerFolder[k].totalCalls])
        /\ Overall.callsOver1Min
              = SumOf([k \in 1..Len(PerFolder) |-> PerFolder[k].callsOver1Min])
        /\ Overall.incoming
              = SumOf([k \in 1..Len(PerFolder) |-> PerFolder[k].incoming])
        /\ Overall.outgoing
              = SumOf([k \in 1..Len(PerFolder) |-> PerFolder[k].outgoing])
        /\ HmsToSeconds(Overall.totalTalkTime)
              = SumOf([k \in 1..Len(PerFolder) |->
                          HmsToSeconds(PerFolder[k].totalTalkTime)])
        /\ Overall.totalCalls = Cardinality(AllStatRows)
        /\ Overall.callsOver1Min
              = Cardinality({r \in AllStatRows : r.row.seconds >= 61})
        /\ Overall.uniquePhones
              = Cardinality({r.row.phone : r \in AllStatRows} \ {<<>>})
        /\ Overall.uniqueOutgoingLong
              = Cardinality({r.row.phone :
                                r \in {q \in AllStatRows :
                                          /\ q.row.bucket = "outgoing"
                                          /\ q.row.seconds >= 61}} \ {<<>>})
        /\ (files["a"] = ExampleA /\ files["b"] = ExampleB /\ files["a1"] = <<>>) =>
              Overall = [folder |-> "OVERALL", totalCalls |-> 3, uniquePhones |-> 2,
                         callsOver1Min |-> 2, incoming |-> 1, outgoing |-> 2,
                         uniqueOutgoingLong |-> 1, totalTalkTime |-> <<"0","0",":","0","4",":","0","0">>]

\* C19 witness: the example tree has been aggregated: folder A with two
\* outgoing calls of phone 123, folder B with one incoming call of phone 456.
OverallWitness ==
    /\ aggPc = "done"
    /\ collected = <<"a", "b">>
    /\ files["a"] = ExampleA
    /\ files["b"] = ExampleB
    /\ overview[1].uniquePhones = 1
    /\ overview[1].callsOver1Min = 1
    /\ Overall.totalCalls = 3
    /\ Overall.uniquePhones = 2
    /\ Overall.totalTalkTime = <<"0","0",":","0","4",":","0","0">>

\* A phone number met in two folders counts once in OVERALL
OverallCountsSharedPhoneOnce ==
    /\ aggPc = "done"
    /\ Len(collected) = 2
    /\ overview[1].uniquePhones = 1
    /\ overview[2].uniquePhones = 2
    /\ Overall.uniquePhones = 2

-----------------------------------------------------------------------------
(* Properties of the aggregation run twice (checked under RerunSpec)       *)

\* The analysis sidecars of the collected folders
CollectedAnalyses ==
    {p \in AnalysisPaths(listing) : \E k \in 1..Len(collected) : collected[k] = p[1]}

\* C18: when the full aggregation has run a second time on the unchanged
\* tree, with the same durations reported and no write failing, every
\* summary.csv, the overview and the grouped lists are exactly as the first
\* run left them; a summary.csv written by the walk holds its header and one
\* row per supported file, whatever it held before; and what the first run
\* wrote is no input of the second: the same folders are collected, never
\* the base, and the grouped lists hold at most one element per analysis
\* sidecar of a collected folder.
SecondRunChangesNothing ==
    (runs = 2 /\ writeFailed = {}) =>
        /\ \A f \in finished \ {"root"} : writes[f] > 0 => HoldsRowsOf(f)
        /\ aggPc = "done" =>
              /\ files = firstRun.files
              /\ overview = firstRun.overview
              /\ grouped = firstRun.grouped
              /\ collected = firstRun.collected
              /\ \A k \in 1..Len(collected) : collected[k] # "root"
              /\ collected # <<>> =>
                    Len(grouped["outgoing"]) + Len(grouped["incoming"])
                       + Len(grouped["deactivation"]) <= Cardinality(CollectedAnalyses)

\* C18 witness: the second run is over; it met the summary.csv files, the
\* overview.csv and the grouped lists of the first run in the listings, wrote
\* the summary.csv of a and b again and merged them into the base file.
SecondRunWitness ==
    /\ runs = 2
    /\ aggPc = "done"
    /\ writeFailed = {}
    /\ HasFile(listing["root"], OverviewCsvName)
    /\ HasFile(listing["root"], <<"o","u","t","g","o","i","n","g","_","c","a","l","l","s",".","j","s","o","n">>)
    /\ HasFile(listing["a"], SummaryCsvName)
    /\ writes["a"] = 1
    /\ writes["b"] = 1
    /\ writes["root"] = 1
    /\ collected = <<"a", "b">>
    /\ Len(Lines(files["root"])) = 4
    /\ Len(grouped["outgoing"]) = 1

-----------------------------------------------------------------------------
(* Properties of the hourly histogram (checked under HourSpec)             *)

\* The row has both fields, and its timestamp holds, where the layout
\* "YYYY-MM-DD HH:MM:SS" has its HH, the two digits of hour h
ContributesTo(row, h) ==
    /\ row.timestamp # <<>>
    /\ row.duration # <<>>
    /\ Len(row.timestamp) >= 13
    /\ IsDigit(row.timestamp[12])
    /\ IsDigit(row.timestamp[13])
    /\ h = 10 * DigitVal(row.timestamp[12]) + DigitVal(row.timestamp[13])

LoggedFor(h) == {k \in 1..Len(hourLog) : ContributesTo(hourLog[k], h)}

RECURSIVE SecondsOf(_)
SecondsOf(rows) ==
    IF rows = {} THEN 0
    ELSE LET k == CHOOSE j \in rows : TRUE
         IN HmsToSeconds(hourLog[k].duration) + SecondsOf(rows \ {k})

TheExampleRow == [timestamp |-> <<"2","0","2","5","-","0","8","-","2","0"," ","0","3",":","0","5",":","4","8">>, duration |-> <<"0","0",":","0","1",":","0","0">>]

\* C21: every one of the 24 hour buckets counts exactly the rows that have a
\* timestamp and a duration and whose two-digit hour field is that hour, and
\* holds the sum of their durations; a row whose timestamp is shorter than 13
\* characters, or whose hour field is no integer in 0..23, is in no bucket;
\* and "2025-08-20 03:05:48" is counted in bucket 3 alone.
HourlyHistogram ==
    /\ DOMAIN hourly = 0..23
    /\ \A h \in 0..23 :
          /\ hourly[h].calls = Cardinality(LoggedFor(h))
          /\ hourly[h].totalSeconds = SecondsOf(LoggedFor(h))
    /\ \A k \in 1..Len(hourLog) :
          Cardinality({h \in 0..23 : ContributesTo(hourLog[k], h)}) <= 1
    /\ hourLog = <<TheExampleRow>> =>
          hourly = [EmptyBuckets EXCEPT ![3] = [totalSeconds |-> 60, calls |-> 1]]

\* C21 witness: a row of 03:05:48 lasting one minute and a row whose
\* timestamp has twelve characters were met; bucket 3 holds the first alone.
HourlyWitness ==
    /\ Len(hourLog) = 2
    /\ hourLog[1] = TheExampleRow
    /\ hourLog[2] = [timestamp |-> <<"2","0","2","5","-","0","8","-","2","0"," ","0">>, duration |-> <<"0","0",":","0","0",":","3","0">>]
    /\ hourly[3] = [totalSeconds |-> 60, calls |-> 1]
    /\ hourly[0].calls = 0

-----------------------------------------------------------------------------
(* Properties of one provider call (checked under CallSpec)                *)

\* The duration getAudioDuration reported is known and is more than 60 seconds
LongerThanSixtySeconds ==
    /\ audioDuration # <<>>
    /\ Len(Split(audioDuration, ":")) = 3
    /\ HmsToSeconds(audioDuration) > 60

ApisUsed == {apiCalls[k].api : k \in 1..Len(apiCalls)}

LongRunningUsed ==
    /\ provider = "google"
    /\ audioDuration = <<"0","0",":","0","1",":","0","1">>
    /\ tests = <<TRUE, TRUE>>
    /\ apiCalls = << [api |-> "longRunningRecognize", audio |-> GcsObject] >>

Deleted == {gcsDeletes[k] : k \in 1..Len(gcsDeletes)}

\* C23: when a Google call has returned and had uploaded the audio to Google
\* Cloud Storage, a delete of the uploaded object has been issued, whether
\* the transcription succeeded or failed.
GcsCleanedUp ==
    (provider = "google" /\ callPc = "returned" /\ gcsUri # <<>>) => gcsUri \in Deleted

\* When the call had uploaded the audio and then failed, the delete of the
\* uploaded object has been issued, once, by the time it returns.
GcsCleanedUpAfterFailure ==
    (provider = "google" /\ callPc = "returned" /\ gcsUri # <<>>
        /\ txtFile \notin {Written(SpeechText), Written(NoSpeechText)}) =>
        gcsDeletes = <<gcsUri>>

\* C23 witness: the call uploaded the audio, longRunningRecognize answered,
\* the transcript was saved and the call returned; no delete was issued and
\* the object is still in the bucket.
GcsObjectLeftBehind ==
    /\ provider = "google"
    /\ callPc = "returned"
    /\ gcsUri = GcsObject
    /\ response = "text"
    /\ txtFile = Written(SpeechText)
    /\ result = Result(<<"0","0",":","0","1",":","0","1">>)
    /\ gcsDeletes = <<>>
    /\ gcsObjects = {GcsObject}

\* C30: whenever the conversion returned a temporary WAV path, the unlink of
\* that path is attempted, once and only in the finally block, before the call
\* returns, after a success and after every failure; whether the unlink
\* removes the file changes nothing of what the call returns; and a
\* conversion that failed with the file on disk leaves it with no unlink
\* attempted.
TempWavReleased ==
    /\ callPc \notin {"returned", "idle"} => unlinks = <<>>
    /\ callPc = "returned" =>
          /\ tempWavPath # <<>> => unlinks = <<tempWavPath>>
          /\ tempWavPath = <<>> => unlinks = <<>>
          /\ result = pending
          /\ result.returned
          /\ (tempWavPath = <<>> /\ fileExt = <<".","a","m","r">>) =>
                /\ result = Result(<<"N","/","A">>)
                /\ tmpFiles \in {{}, {WavPath}}
    /\ (tempWavPath # <<>> /\ callPc # "returned") => tmpFiles = {WavPath}
    /\ tempWavPath # <<>> => fileExt = <<".","a","m","r">>

\* C30 witness: the Whisper request for a converted file failed; the unlink of
\* the temporary file was attempted and failed too, and the call returned N/A.
TempWavWitness ==
    /\ provider = "whisper"
    /\ callPc = "returned"
    /\ tempWavPath = WavPath
    /\ response = "error"
    /\ unlinks = <<WavPath>>
    /\ tmpFiles = {WavPath}
    /\ result = Result(<<"N","/","A">>)

\* A conversion failed after the file was created: it is left, no unlink
TempWavLeftByFailedConversion ==
    /\ callPc = "returned"
    /\ tempWavPath = <<>>
    /\ tmpFiles = {WavPath}
    /\ unlinks = <<>>

\* The unlink after a success, Google's call included
TempWavReleasedAfterSuccess ==
    /\ provider = "google"
    /\ callPc = "returned"
    /\ unlinks = <<WavPath>>
    /\ tmpFiles = {}
    /\ txtFile = Written(SpeechText)

-----------------------------------------------------------------------------
(* Properties of the modes and of the order of the passes (RunSpec)        *)

\* The options and transcripts the run may have started with
StartedWith ==
    {in \in RunInputs :
        /\ in.mode = mode
        /\ in.service = service
        /\ in.key = openaiApiKey
        /\ content = [p \in TxtPaths(in.tree) |-> in.prior]}

TranscribeOnlyCompleted ==
    /\ mode = "transcribe"
    /\ tPc = "done"
    /\ Len(calls) >= 3
    /\ \E k \in 1..Len(calls) : calls[k].outcome = "text"
    /\ \A f \in Folders : writes[f] = 0

\* Without a key a run that transcribes with Whisper ends at the options
KeyNeededToTranscribe ==
    /\ mode = "transcribe"
    /\ service = "whisper"
    /\ ~openaiApiKey
    /\ tPc = "failed"
    /\ failedAt = "options"

-----------------------------------------------------------------------------

\* The provider calls of this run that left something at the transcript path
WritingCalls ==
    {k \in 1..Len(calls) : Transcribed(calls[k].service, calls[k].outcome).written}

\* The summary.csv of folder f has a row of the named file that says Yes
FileSaysYes(f, name) ==
    \E i \in 1..Len(Split(files[f], "\n")) :
        \E duration \in DurationResults :
            Split(files[f], "\n")[i] =
                Join(RowValues(SummaryRow(name, duration, TRUE, IndexParseFilenameMetadata(name))), <<",">>)

SummaryWritten(f) == f \in finished /\ writes[f] > 0 /\ f \notin writeFailed

\* C27: in the default mode the transcription pass over the whole tree is
\* over before the summary pass starts, let alone builds a row; so every file
\* whose transcript was written by a provider call of this run is flagged Yes
\* in the row the summary pass builds for it and in the summary.csv of its
\* folder.
PassesInOrder ==
    mode = "both" =>
        /\ walkPc # "idle" => (tPc = "done" /\ tStack = <<>>)
        /\ tPc # "done" =>
              /\ stack = <<>>
              /\ FlaggedRows = {}
              /\ finished = {}
              /\ \A f \in Folders : writes[f] = 0
        /\ \A k \in WritingCalls :
              /\ <<calls[k].folder, calls[k].txt>> \in exists
              /\ \A r \in FlaggedRows :
                    (r.folder = calls[k].folder /\ r.name = calls[k].name) => r.flag
              /\ SummaryWritten(calls[k].folder) =>
                    FileSaysYes(calls[k].folder, calls[k].name)

\* C27 witness: a default run is over; x.mp3 of folder b had no transcript,
\* Whisper wrote one in the first pass, and the summary.csv of b written in the
\* second pass says Yes for it.
PassesInOrderWitness ==
    /\ mode = "both"
    /\ service = "whisper"
    /\ tPc = "done"
    /\ walkPc = "done"
    /\ \E k \in WritingCalls : calls[k].folder = "b" /\ calls[k].name = <<"x",".","m","p","3">>
    /\ SummaryWritten("b")
    /\ FileSaysYes("b", <<"x",".","m","p","3">>)
    /\ FileSaysYes("b", <<"y",".","w","a","v">>)

-----------------------------------------------------------------------------
(* The manual choice of a parser (checked under FilenameSpec)              *)

\* The parser a caller has handed to the factory to have it used: the factory
\* has no override slot, addParser is the only way to hand it a parser
ManualParser == registered[1]

\* C25: when a parser has been set manually on the resolver, it is used
\* unconditionally: the factory returns that parser's parse(f) for every
\* filename f and asks canParse of no parser.
ManualParserUsedUnconditionally ==
    (strategy = "factory" /\ Len(registered) = 1) =>
        /\ metadata = Parse(ManualParser, filename)
        /\ consulted = <<>>

\* C25 witness: the prefix-form parser was handed to the factory and a token
\* filename resolved: the token strategy was asked first and its parse
\* returned, not the parse of the parser handed in.
ManualParserConsultedLast ==
    /\ strategy = "factory"
    /\ registered = <<"call-recording">>
    /\ filename = <<"r","e","c","o","r","d","i","n","g","-","T","P","1","1","7","5","5","6","5","9","1","4","8","2","8","4","T","P","2","T","P","3","7","5","6","1","0","7","4","5","2","3","T","P","4","o","u","t","g","o","i","n","g",".","a","m","r">>
    /\ consulted = <<"arex">>
    /\ metadata = Parse("arex", filename)
    /\ metadata # Parse("call-recording", filename)

\* What the code does with a parser handed in: it is asked after the two
\* constructed ones, and used for the filenames they both refuse and it accepts
ManualParserAskedLast ==
    (strategy = "factory" /\ Len(registered) = 1) =>
        /\ metadata = FactoryParse(<<"arex", "simple", ManualParser>>, filename).metadata
        /\ \A k \in 1..Len(consulted) :
              consulted[k] = ManualParser => k = 3 \/ ManualParser = ConstructedParsers[k]

-----------------------------------------------------------------------------
(* Properties of the Speechmatics polling (checked under PollSpec)         *)

\* The status last reported ended the polling
StoppedByStatus ==
    jobStatus \in {"done", "completed", "failed", "error", "http 500", "rejected"}

PollingIsBounded ==
    /\ attempts <= MaxAttempts
    /\ statusRequests <= MaxAttempts
    /\ awaitingStatus => pollPc = "polling"
    /\ statusRequests = attempts + (IF awaitingStatus \/ StoppedByStatus THEN 1 ELSE 0)
    /\ StoppedByStatus => pollPc # "polling"
    /\ transcriptFetches <= 1
    /\ transcriptFetches = 1 <=>
          (IsDone(jobStatus) /\ pollPc # "fetching")
    /\ transcriptionResult # "null" => transcriptFetches = 1
    /\ IsFailed(jobStatus) => errorMessage = JobFailedMessage
    /\ jobStatus = "http 500" => errorMessage = StatusCheckMessage
    /\ errorMessage = TimedOutMessage <=>
          (attempts = MaxAttempts /\ ~awaitingStatus /\ pollPc \in {"catch", "returned"})
    /\ errorMessage = TimedOutMessage =>
          /\ statusRequests = MaxAttempts
          /\ transcriptFetches = 0
          /\ jobStatus \in {"queued", "running", "processing", "mystery"}
    /\ pollPc = "returned" =>
          /\ speechResult.returned
          /\ speechResult.duration \in {<<"N","/","A">>} \cup (DurationResults \ {<<>>})
          /\ errorMessage # <<>> =>
                /\ speechResult = Result(<<"N","/","A">>)
                /\ speechTxt \in {NotWritten, Written(FailureMarker(errorMessage))}
          /\ errorMessage = <<>> =>
                /\ transcriptionResult # "null"
                /\ speechTxt = TranscribeFileSpeechmatics(transcriptionResult)

\* C26: the polling of a Speechmatics job is bounded and always ends: at most
\* 120 status requests are sent, one awaited at a time; the polling stops at
\* the first done or completed status, the transcript being fetched once, at
\* the first failed or error status or response that is not OK, or after the
\*120th poll with "Transcription timed out"; every other status, known or
\* not, consumes one attempt; and every call returns a duration value.
PollingBoundedAndEnds == []PollingIsBounded /\ <>(pollPc = "returned")

\* C26 witness: 120 polls were answered queued, running, processing or by an
\* unknown status; the call timed out, wrote the marker and returned N/A.
PollingTimedOut ==
    /\ pollPc = "returned"
    /\ attempts = MaxAttempts
    /\ statusRequests = MaxAttempts
    /\ jobStatus = "mystery"
    /\ transcriptFetches = 0
    /\ speechTxt = Written(<<"[","T","r","a","n","s","c","r","i","p","t","i","o","n"," ","f","a","i","l","e","d",":"," ","T","r","a","n","s","c","r","i","p","t","i","o","n"," ","t","i","m","e","d"," ","o","u","t","]">>)
    /\ speechResult = Result(<<"N","/","A">>)

\* The job was done at the 120th poll: the transcript was fetched and saved
PollingDoneAtLastAttempt ==
    /\ pollPc = "returned"
    /\ attempts = MaxAttempts - 1
    /\ statusRequests = MaxAttempts
    /\ jobStatus = "done"
    /\ transcriptFetches = 1
    /\ speechTxt = Written(SpeechText)
    /\ speechResult = Result(<<"0","0",":","0","0",":","2","0">>)

-----------------------------------------------------------------------------
\* Claims about a later run over the same directory

\* The provider calls of run i, the run under way included
CallsOfRun(i) == IF i = runNo THEN calls ELSE earlier[i]

\* The providers whose catch block writes the failure marker
MarkerServices == {"gemini", "speechmatics", "google"}

\* The call failed and its catch block wrote the marker
MarkerLeft(c) == c.service \in MarkerServices /\ c.outcome = "failed"

\* The Whisper call failed
WhisperFailed(c) == c.service = "whisper" /\ c.outcome \in {"failed", "unwritable"}

SameFile(c, d) == c.folder = d.folder /\ c.name = d.name

SamePath(c, d) == c.folder = d.folder /\ c.txt = d.txt

\* The decisions this run has made about the file of call c
DecisionsAbout(c) ==
    {decisions[j].decision : j \in {n \in 1..Len(decisions) : SameFile(decisions[n], c)}}

\* Some call in the sequence left a file at the transcript path of c
WrittenIn(cs, c) ==
    \E m \in 1..Len(cs) :
        SamePath(cs[m], c) /\ Transcribed(cs[m].service, cs[m].outcome).written

\* C28: a Gemini, Speechmatics or Google call that failed and wrote its marker
\* leaves the marker at the transcript path for good; no later run calls a
\* provider for the file: each later run skips it, and its row and its line
\* in summary.csv say Yes. A failed Whisper call writes nothing, and the next
\* run decides to transcribe the file again (unless another file of the same
\* stem has had the shared transcript written meanwhile).
FailedNeverRetried ==
    /\ \A i \in 1..runNo : \A k \in 1..Len(CallsOfRun(i)) :
          LET c == CallsOfRun(i)[k]
          IN MarkerLeft(c) =>
                /\ <<c.folder, c.txt>> \in exists
                /\ content[<<c.folder, c.txt>>] = FailedText
                /\ \A j \in (i + 1)..runNo : \A m \in 1..Len(CallsOfRun(j)) :
                      ~SameFile(CallsOfRun(j)[m], c)
                /\ i < runNo =>
                      /\ DecisionsAbout(c) \subseteq {"skip"}
                      /\ c.folder \in tFinished => DecisionsAbout(c) = {"skip"}
                      /\ \A r \in FlaggedRows :
                            (r.folder = c.folder /\ r.name = c.name) => r.flag
                      /\ SummaryWritten(c.folder) => FileSaysYes(c.folder, c.name)
    /\ \A i \in 1..runNo : \A k \in 1..Len(CallsOfRun(i)) :
          LET c == CallsOfRun(i)[k]
          IN WhisperFailed(c) =>
                /\ ~Transcribed(c.service, c.outcome).written
                /\ (i = runNo - 1 /\ ~WrittenIn(earlier[i], c) /\ ~WrittenIn(calls, c)) =>
                      /\ <<c.folder, c.txt>> \notin exists
                      /\ DecisionsAbout(c) \subseteq {"transcribe"}
                      /\ c.folder \in tFinished => DecisionsAbout(c) = {"transcribe"}

\* C28 witness: Gemini failed on c.amr in the first run and wrote the marker;
\* the second run is over, has skipped the file, called no provider, and its
\* summary.csv says Yes for it.
FailedNeverRetriedWitness ==
    /\ runNo = 2
    /\ service = "gemini"
    /\ \E k \in 1..Len(earlier[1]) :
          /\ MarkerLeft(earlier[1][k])
          /\ earlier[1][k].folder = "b"
          /\ earlier[1][k].name = <<"c",".","a","m","r">>
    /\ tPc = "done"
    /\ walkPc = "done"
    /\ calls = <<>>
    /\ \E j \in 1..Len(decisions) :
          decisions[j].name = <<"c",".","a","m","r">> /\ decisions[j].decision = "skip"
    /\ SummaryWritten("b")
    /\ FileSaysYes("b", <<"c",".","a","m","r">>)

\* Whisper failed on c.amr in the first run, and the second run has called it
\* again for the file
WhisperRetried ==
    /\ runNo = 2
    /\ service = "whisper"
    /\ \E k \in 1..Len(earlier[1]) :
          WhisperFailed(earlier[1][k]) /\ earlier[1][k].name = <<"c",".","a","m","r">>
    /\ \E m \in 1..Len(calls) : calls[m].name = <<"c",".","a","m","r">>

-----------------------------------------------------------------------------
\* Recordings of one stem

\* The supported files of folder f
Recordings(f) == {AudioNames(f)[i] : i \in 1..Len(AudioNames(f))}

\* The supported files of one folder whose names differ only in the extension
StemPairs ==
    {p \in UNION {{<<f, n1, n2>> : n1 \in Recordings(f), n2 \in Recordings(f)} :
                    f \in Folders} :
        p[2] # p[3] /\ SidecarName(p[2]) = SidecarName(p[3])}

\* The supported files of one folder for which the code computes one txtPath
PathPairs ==
    {p \in UNION {{<<f, n1, n2>> : n1 \in Recordings(f), n2 \in Recordings(f)} :
                    f \in Folders} :
        p[2] # p[3] /\ TxtName(p[2]) = TxtName(p[3])}

\* The calls of this run for file n of folder f that left a transcript
WritingCallsFor(f, n) == {k \in WritingCalls : calls[k].folder = f /\ calls[k].name = n}

\* Of the two files of pair p at most one is transcribed into the transcript:
\* once a call for one has written it no call is made for the other, the
\* other is skipped, and the rows of both say Yes
OneTranscriptFor(p) ==
    LET f == p[1]
        first == p[2]
        second == p[3]
    IN \A k \in WritingCallsFor(f, first) :
          /\ \A m \in 1..Len(calls) :
                (calls[m].folder = f /\ calls[m].name = second) => m < k
          /\ \A j \in 1..Len(decisions) :
                (/\ decisions[j].folder = f
                 /\ decisions[j].name = second
                 /\ decisions[j].decision = "transcribe")
                    => \E m \in 1..(k - 1) : calls[m].folder = f /\ calls[m].name = second
          /\ \A r \in FlaggedRows : (r.folder = f /\ r.name \in {first, second}) => r.flag
          /\ SummaryWritten(f) => (FileSaysYes(f, first) /\ FileSaysYes(f, second))

\* C29 as stated: two supported files of one folder whose names differ only
\* in the extension share the transcript path <stem>.txt; within one run that
\* path is written by at most one provider call, so once the first has
\* produced it the second is skipped and never transcribed, and both rows say
\* Yes.
StemSharesTranscript ==
    \A p \in StemPairs :
        /\ TxtName(p[2]) = SidecarName(p[2])
        /\ TxtName(p[3]) = SidecarName(p[2])
        /\ Cardinality(WritingCallsFor(p[1], p[2]) \cup WritingCallsFor(p[1], p[3])) <= 1
        /\ OneTranscriptFor(p)

\* C29 for the path the code computes: within one run no two provider calls
\* leave a file at one transcript path, and of two files with one txtPath
\* the second is skipped once the first has had it written, both rows saying
\* Yes.
PathSharesTranscript ==
    /\ \A k \in WritingCalls : \A m \in WritingCalls : SamePath(calls[k], calls[m]) => k = m
    /\ \A p \in PathPairs : OneTranscriptFor(p)

\* a.mp3 was transcribed, a.wav skipped, and summary.csv says Yes for both
SecondOfPairSkipped ==
    /\ runNo = 1
    /\ mode = "both"
    /\ <<"root", <<"a",".","m","p","3">>, <<"a",".","w","a","v">>>> \in PathPairs
    /\ WritingCallsFor("root", <<"a",".","m","p","3">>) # {}
    /\ \E j \in 1..Len(decisions) :
          decisions[j].name = <<"a",".","w","a","v">> /\ decisions[j].decision = "skip"
    /\ SummaryWritten("root")
    /\ FileSaysYes("root", <<"a",".","m","p","3">>)
    /\ FileSaysYes("root", <<"a",".","w","a","v">>)

\* a.MP3 and a.wav were both transcribed in one run, into a.MP3.txt and a.txt
BothOfPairTranscribed ==
    /\ runNo = 1
    /\ <<"root", <<"a",".","M","P","3">>, <<"a",".","w","a","v">>>> \in StemPairs
    /\ \E k \in WritingCallsFor("root", <<"a",".","M","P","3">>) : calls[k].txt = <<"a",".","M","P","3",".","t","x","t">>
    /\ \E k \in WritingCallsFor("root", <<"a",".","w","a","v">>) : calls[k].txt = <<"a",".","t","x","t">>

=============================================================================
